---------------------------- MODULE Spec2Model ----------------------------
(***************************************************************************)
(* Propositional formulas of propositions/syntax.py, their semantics       *)
(* (propositions/semantics.py) and the operator-basis converters           *)
(* (propositions/operators.py).                                            *)
(*                                                                         *)
(* A Python str is a sequence of one-character strings.  A Formula is a    *)
(* tuple <<root>>, <<root, first>> or <<root, first, second>> (the         *)
(* attributes __init__ sets), root being a str.  A Model (a dict) is a     *)
(* function from variable names to BOOLEAN.  A library call is a step of   *)
(* the client: op is the function called, args its arguments, ret what it  *)
(* returned (or the exception it raised).                                  *)
(***************************************************************************)
EXTENDS Integers, Sequences, FiniteSets, TLC

VARIABLES op, args, ret

vars == <<op, args, ret>>

(***************************************************************************)
(* Bounds of the checked instances.                                        *)
(***************************************************************************)
\* formulas given to the converters have at most this many nodes
MaxNodes == 4
\* formulas given to to_nand, whose result doubles at every '~' and '&' of
\* the to_not_and form, have at most this many nodes
MaxNandNodes == 3
\* formulas printed and parsed back have at most this many nodes
MaxParseNodes == 5
\* variable lists given to all_models / synthesize have at most this length
MaxVars == 2
\* formulas given to the substitutions have at most this many nodes
MaxSubstNodes == 4

(***************************************************************************)
(* Characters and Python's str primitives.                                 *)
(***************************************************************************)
\* ord(c) of the characters used
Ord == [c \in {"&", "(", ")", "+", "-", "0", "1", "2", "6", "7", "9", "<", ">",
               "F", "T", "o", "p", "q", "r", "x", "y", "z", "{", "|", "~"} |->
          CASE c = "&" -> 38  [] c = "(" -> 40  [] c = ")" -> 41
            [] c = "+" -> 43  [] c = "-" -> 45  [] c = "0" -> 48
            [] c = "1" -> 49  [] c = "2" -> 50  [] c = "6" -> 54
            [] c = "7" -> 55  [] c = "9" -> 57
            [] c = "<" -> 60  [] c = ">" -> 62  [] c = "F" -> 70
            [] c = "T" -> 84  [] c = "o" -> 111 [] c = "p" -> 112
            [] c = "q" -> 113 [] c = "r" -> 114 [] c = "x" -> 120
            [] c = "y" -> 121 [] c = "z" -> 122 [] c = "{" -> 123
            [] c = "|" -> 124 [] c = "~" -> 126]

\* str.isdecimal() of a one-character string
IsDecimalChar(c) == Ord[c] >= Ord["0"] /\ Ord[c] <= Ord["9"]

\* str.isdecimal(): nonempty and every character a decimal digit
isdecimal(s) == Len(s) > 0 /\ \A i \in 1..Len(s) : IsDecimalChar(s[i])

\* s[i:] of Python, i counted from 0
StrFrom(s, i) == SubSeq(s, i + 1, Len(s))

\* s[:i] of Python
StrTo(s, i) == SubSeq(s, 1, IF i < Len(s) THEN i ELSE Len(s))

\* a < b on str: lexicographic by code point
StrLess(a, b) ==
    \/ Len(a) < Len(b) /\ \A j \in 1..Len(a) : a[j] = b[j]
    \/ \E i \in 1..(IF Len(a) < Len(b) THEN Len(a) ELSE Len(b)) :
          /\ Ord[a[i]] < Ord[b[i]]
          /\ \A j \in 1..(i - 1) : a[j] = b[j]

\* sorted(S) of a set of str
RECURSIVE sorted(_)
sorted(S) ==
    IF S = {} THEN << >>
    ELSE LET least == CHOOSE a \in S : \A b \in S \ {a} : StrLess(a, b)
         IN  <<least>> \o sorted(S \ {least})

None == << >>

\* what a failed assert leaves instead of a value: a tuple of a length that no
\* formula, returned pair or list of models has
AssertionError == <<"AssertionError", "", "", "", "">>

\* what string[0] of an empty str leaves instead of a value
IndexError == <<"IndexError", "", "", "", "">>

(***************************************************************************)
(* propositions/syntax.py: token classes.                                  *)
(***************************************************************************)
is_variable(string) ==
    /\ Ord[string[1]] >= Ord["p"] /\ Ord[string[1]] <= Ord["z"]
    /\ (Len(string) = 1 \/ isdecimal(StrFrom(string, 1)))

is_constant(string) == string = <<"T">> \/ string = <<"F">>

is_unary(string) == string = <<"~">>

is_binary(string) ==
    string \in {<<"&">>, <<"|">>, <<"-", ">">>, <<"+">>, <<"<", "-", ">">>,
                <<"-", "&">>, <<"-", "|">>}

(***************************************************************************)
(* class Formula.                                                          *)
(***************************************************************************)
\* Formula.__init__ with a second operand let through beside '~'
Formula_second_unchecked(root_, first_, second_) ==
    IF first_ = AssertionError \/ second_ = AssertionError THEN AssertionError
    ELSE IF root_ = << >> THEN IndexError
    ELSE IF is_variable(root_) \/ is_constant(root_)
    THEN IF first_ = None /\ second_ = None THEN <<root_>> ELSE AssertionError
    ELSE IF is_unary(root_)
    THEN IF first_ # None THEN <<root_, first_>> ELSE AssertionError
    ELSE IF is_binary(root_) /\ first_ # None /\ second_ # None
         THEN <<root_, first_, second_>> ELSE AssertionError

\* Formula.__init__; an exception raised while an argument was computed
\* propagates instead of the call, and is_variable of line 93 reads root[0]
Formula(root_, first_, second_) ==
    IF first_ = AssertionError \/ second_ = AssertionError THEN AssertionError
    ELSE IF root_ = << >> THEN IndexError
    ELSE IF is_variable(root_) \/ is_constant(root_)
    THEN IF first_ = None /\ second_ = None THEN <<root_>> ELSE AssertionError
    ELSE IF is_unary(root_)
    THEN IF first_ # None /\ second_ = None
         THEN <<root_, first_>> ELSE AssertionError
    ELSE IF is_binary(root_) /\ first_ # None /\ second_ # None
         THEN <<root_, first_, second_>> ELSE AssertionError

root(f) == f[1]
first(f) == f[2]
second(f) == f[3]

\* Formula.__repr__
RECURSIVE repr(_)
repr(self) ==
    IF is_variable(root(self)) \/ is_constant(root(self)) THEN root(self)
    ELSE IF is_unary(root(self)) THEN root(self) \o repr(first(self))
    ELSE <<"(">> \o repr(first(self)) \o root(self) \o repr(second(self))
         \o <<")">>

\* Formula.__eq__
FormulaEq(self, other) == repr(self) = repr(other)

\* Formula.variables
RECURSIVE variables(_)
variables(self) ==
    IF is_variable(root(self)) THEN {root(self)}
    ELSE IF is_constant(root(self)) THEN {}
    ELSE IF is_unary(root(self)) THEN variables(first(self))
    ELSE variables(first(self)) \cup variables(second(self))

\* Formula.operators
RECURSIVE operators(_)
operators(self) ==
    IF is_variable(root(self)) THEN {}
    ELSE IF is_constant(root(self)) THEN {root(self)}
    ELSE IF is_unary(root(self)) THEN {root(self)} \cup operators(first(self))
    ELSE {root(self)} \cup operators(first(self)) \cup operators(second(self))


(***************************************************************************)
(* The parsers.  A returned pair (formula, remainder) is <<formula,        *)
(* remainder>>; an error message is a str of one piece.                    *)
(***************************************************************************)
\* string[i] of Python, a str of length one, i counted from 0
CharAt(string, i) == <<string[i + 1]>>

\* the loop left after one digit
ScanOneDecimal(string, index) ==
    IF index < Len(string) /\ isdecimal(CharAt(string, index))
    THEN index + 1
    ELSE index

\* the while loop of lines 203-204 and 303-304: the index it ends with
RECURSIVE ScanDecimals(_, _)
ScanDecimals(string, index) ==
    IF index < Len(string) /\ isdecimal(CharAt(string, index))
    THEN ScanDecimals(string, index + 1)
    ELSE index

\* the for loop of lines 224-229 and 317-322, from candidate length `length`
\* down: the length of the operator found, 0 when operator stays None
RECURSIVE MatchOperator(_, _)
MatchOperator(string, length) ==
    IF length = 0 THEN 0
    ELSE IF is_binary(StrTo(string, length)) THEN length
    ELSE MatchOperator(string, length - 1)

\* the bound of the candidates when only one and two characters are tried
max_op_length_two(string) == IF Len(string) < 2 THEN Len(string) ELSE 2

\* min(3, len(remainder)), lines 223 and 316
max_op_length(string) == IF Len(string) < 3 THEN Len(string) ELSE 3

\* Formula._parse_prefix
RECURSIVE Formula_parse_prefix(_)
\* the same with the end of the text behind the first operand reported as
\* the end of the input
Formula_parse_prefix_end_of_input(string) ==
    IF Len(string) = 0 THEN <<None, <<"Unexpected end of input">>>>
    ELSE IF is_constant(CharAt(string, 0))
    THEN <<Formula(CharAt(string, 0), None, None), StrFrom(string, 1)>>
    ELSE LET index == ScanDecimals(string, 1)
             variable == StrTo(string, index)
         IN
         IF /\ Ord[string[1]] >= Ord["p"] /\ Ord[string[1]] <= Ord["z"]
            /\ is_variable(variable)
         THEN <<Formula(variable, None, None), StrFrom(string, index)>>
         ELSE IF is_unary(CharAt(string, 0))
         THEN LET parsed == Formula_parse_prefix(StrFrom(string, 1))
              IN  IF parsed[1] = None THEN <<None, parsed[2]>>
                  ELSE <<Formula(CharAt(string, 0), parsed[1], None),
                         parsed[2]>>
         ELSE IF string[1] = "("
         THEN LET parsed1 == Formula_parse_prefix(StrFrom(string, 1))
                  first_ == parsed1[1]
                  remainder1 == parsed1[2]
                  length == MatchOperator(remainder1,
                                          max_op_length(remainder1))
                  operator == StrTo(remainder1, length)
                  parsed2 == Formula_parse_prefix(StrFrom(remainder1, length))
                  second_ == parsed2[1]
                  remainder2 == parsed2[2]
              IN  IF first_ = None THEN <<None, remainder1>>
                  ELSE IF remainder1 = << >>
                  THEN <<None, <<"Unexpected end of input">>>>
                  ELSE IF length = 0
                  THEN <<None, <<"Expected binary operator">>>>
                  ELSE IF second_ = None THEN <<None, remainder2>>
                  ELSE IF remainder2 = << >> \/ remainder2[1] # ")"
                  THEN <<None, <<"Expected closing parenthesis">>>>
                  ELSE <<Formula(operator, first_, second_),
                         StrFrom(remainder2, 1)>>
         ELSE <<None, <<"Invalid formula">>>>

Formula_parse_prefix(string) ==
    IF Len(string) = 0 THEN <<None, <<"Unexpected end of input">>>>
    ELSE IF is_constant(CharAt(string, 0))
    THEN <<Formula(CharAt(string, 0), None, None), StrFrom(string, 1)>>
    ELSE LET index == ScanDecimals(string, 1)
             variable == StrTo(string, index)
         IN
         IF /\ Ord[string[1]] >= Ord["p"] /\ Ord[string[1]] <= Ord["z"]
            /\ is_variable(variable)
         THEN <<Formula(variable, None, None), StrFrom(string, index)>>
         ELSE IF is_unary(CharAt(string, 0))
         THEN LET parsed == Formula_parse_prefix(StrFrom(string, 1))
              IN  IF parsed[1] = None THEN <<None, parsed[2]>>
                  ELSE <<Formula(CharAt(string, 0), parsed[1], None),
                         parsed[2]>>
         ELSE IF string[1] = "("
         THEN LET parsed1 == Formula_parse_prefix(StrFrom(string, 1))
                  first_ == parsed1[1]
                  remainder1 == parsed1[2]
                  length == MatchOperator(remainder1,
                                          max_op_length(remainder1))
                  operator == StrTo(remainder1, length)
                  parsed2 == Formula_parse_prefix(StrFrom(remainder1, length))
                  second_ == parsed2[1]
                  remainder2 == parsed2[2]
              IN  IF first_ = None THEN <<None, remainder1>>
                  ELSE IF remainder1 = << >>
                  THEN <<None, <<"Expected binary operator">>>>
                  ELSE IF length = 0
                  THEN <<None, <<"Expected binary operator">>>>
                  ELSE IF second_ = None THEN <<None, remainder2>>
                  ELSE IF remainder2 = << >> \/ remainder2[1] # ")"
                  THEN <<None, <<"Expected closing parenthesis">>>>
                  ELSE <<Formula(operator, first_, second_),
                         StrFrom(remainder2, 1)>>
         ELSE <<None, <<"Invalid formula">>>>

\* the same with whatever follows the parsed prefix let through
is_formula_any_remainder(string) ==
    LET parsed == Formula_parse_prefix(string)
    IN  parsed[1] # None

\* Formula.is_formula
is_formula(string) ==
    LET parsed == Formula_parse_prefix(string)
    IN  parsed[1] # None /\ parsed[2] = << >>

\* Formula.parse
parse(string) ==
    IF ~is_formula(string) THEN AssertionError
    ELSE Formula_parse_prefix(string)[1]

\* Formula.polish
RECURSIVE polish(_)
\* the same with the operands of a binary operator printed in the other order
polish_exchanged(self) ==
    IF is_variable(root(self)) \/ is_constant(root(self)) THEN root(self)
    ELSE IF is_unary(root(self)) THEN root(self) \o polish(first(self))
    ELSE root(self) \o polish(second(self)) \o polish(first(self))

polish(self) ==
    IF is_variable(root(self)) \/ is_constant(root(self)) THEN root(self)
    ELSE IF is_unary(root(self)) THEN root(self) \o polish(first(self))
    ELSE root(self) \o polish(first(self)) \o polish(second(self))

\* parse_prefix inside Formula.parse_polish
RECURSIVE parse_polish_parse_prefix(_)
parse_polish_parse_prefix(s) ==
    IF s = << >> THEN <<None, <<"Unexpected end of input">>>>
    ELSE IF is_constant(CharAt(s, 0))
    THEN <<Formula(CharAt(s, 0), None, None), StrFrom(s, 1)>>
    ELSE LET index == ScanDecimals(s, 1)
             name == StrTo(s, index)
         IN
         IF /\ Ord[s[1]] >= Ord["p"] /\ Ord[s[1]] <= Ord["z"]
            /\ is_variable(name)
         THEN <<Formula(name, None, None), StrFrom(s, index)>>
         ELSE IF is_unary(CharAt(s, 0))
         THEN LET parsed == parse_polish_parse_prefix(StrFrom(s, 1))
              IN  IF parsed[1] = None THEN <<None, parsed[2]>>
                  ELSE <<Formula(CharAt(s, 0), parsed[1], None), parsed[2]>>
         ELSE LET length == MatchOperator(s, max_op_length(s))
                  operator == StrTo(s, length)
                  parsed1 == parse_polish_parse_prefix(StrFrom(s, length))
                  parsed2 == parse_polish_parse_prefix(parsed1[2])
              IN  IF length = 0 THEN <<None, <<"Invalid formula">>>>
                  ELSE IF parsed1[1] = None THEN <<None, parsed1[2]>>
                  ELSE IF parsed2[1] = None THEN <<None, parsed2[2]>>
                  ELSE <<Formula(operator, parsed1[1], parsed2[1]),
                         parsed2[2]>>

\* Formula.parse_polish
parse_polish(string) ==
    LET parsed == parse_polish_parse_prefix(string)
    IN  IF parsed[1] # None /\ parsed[2] = << >> THEN parsed[1]
        ELSE AssertionError

(***************************************************************************)
(* The substitutions.  A substitution map (a dict) is a function from str  *)
(* to formulas.                                                            *)
(***************************************************************************)
\* one variable name replaced at a time: v by g in self
RECURSIVE substitute_one(_, _, _)
substitute_one(self, v, g) ==
    IF is_variable(root(self)) THEN (IF root(self) = v THEN g ELSE self)
    ELSE IF is_constant(root(self)) THEN self
    ELSE IF is_unary(root(self))
    THEN Formula(root(self), substitute_one(first(self), v, g), None)
    ELSE Formula(root(self), substitute_one(first(self), v, g),
                 substitute_one(second(self), v, g))

\* the keys of the map substituted one after the other, in sorted order
RECURSIVE substitute_each(_, _, _)
substitute_each(self, keys, substitution_map) ==
    IF keys = << >> THEN self
    ELSE substitute_each(
             substitute_one(self, Head(keys), substitution_map[Head(keys)]),
             Tail(keys), substitution_map)

substitute_variables_in_turn(self, substitution_map) ==
    substitute_each(self, sorted(DOMAIN substitution_map), substitution_map)

\* Formula.substitute_variables
RECURSIVE substitute_variables(_, _)
\* the same with the second operand of a binary operator left as it is
substitute_variables_first_only(self, substitution_map) ==
    IF \E variable \in DOMAIN substitution_map : ~is_variable(variable)
    THEN AssertionError
    ELSE IF is_variable(root(self))
    THEN IF root(self) \in DOMAIN substitution_map
         THEN substitution_map[root(self)]
         ELSE Formula(root(self), None, None)
    ELSE IF is_constant(root(self)) THEN Formula(root(self), None, None)
    ELSE IF is_unary(root(self))
    THEN Formula(root(self),
                 substitute_variables(first(self), substitution_map), None)
    ELSE Formula(root(self),
                 substitute_variables(first(self), substitution_map),
                 second(self))

substitute_variables(self, substitution_map) ==
    IF \E variable \in DOMAIN substitution_map : ~is_variable(variable)
    THEN AssertionError
    ELSE IF is_variable(root(self))
    THEN IF root(self) \in DOMAIN substitution_map
         THEN substitution_map[root(self)]
         ELSE Formula(root(self), None, None)
    ELSE IF is_constant(root(self)) THEN Formula(root(self), None, None)
    ELSE IF is_unary(root(self))
    THEN Formula(root(self),
                 substitute_variables(first(self), substitution_map), None)
    ELSE Formula(root(self),
                 substitute_variables(first(self), substitution_map),
                 substitute_variables(second(self), substitution_map))

\* Formula.substitute_operators
RECURSIVE substitute_operators(_, _)
\* the same with the operands left as they are under a mapped operator
substitute_operators_shallow(self, substitution_map) ==
    IF \E operator \in DOMAIN substitution_map :
          \/ ~(is_constant(operator) \/ is_unary(operator)
               \/ is_binary(operator))
          \/ ~(variables(substitution_map[operator])
               \subseteq {<<"p">>, <<"q">>})
    THEN AssertionError
    ELSE IF is_variable(root(self)) THEN Formula(root(self), None, None)
    ELSE IF is_constant(root(self))
    THEN IF root(self) \in DOMAIN substitution_map
         THEN substitution_map[root(self)]
         ELSE Formula(root(self), None, None)
    ELSE IF is_unary(root(self))
    THEN IF root(self) \in DOMAIN substitution_map
         THEN substitute_variables(substitution_map[root(self)],
                                   (<<"p">> :> first(self)))
         ELSE Formula(root(self),
                      substitute_operators(first(self), substitution_map),
                      None)
    ELSE IF root(self) \in DOMAIN substitution_map
         THEN substitute_variables(
                  substitution_map[root(self)],
                  (<<"p">> :> first(self)) @@ (<<"q">> :> second(self)))
         ELSE Formula(root(self),
                      substitute_operators(first(self), substitution_map),
                      substitute_operators(second(self), substitution_map))

substitute_operators(self, substitution_map) ==
    IF \E operator \in DOMAIN substitution_map :
          \/ ~(is_constant(operator) \/ is_unary(operator)
               \/ is_binary(operator))
          \/ ~(variables(substitution_map[operator])
               \subseteq {<<"p">>, <<"q">>})
    THEN AssertionError
    ELSE IF is_variable(root(self)) THEN Formula(root(self), None, None)
    ELSE IF is_constant(root(self))
    THEN IF root(self) \in DOMAIN substitution_map
         THEN substitution_map[root(self)]
         ELSE Formula(root(self), None, None)
    ELSE IF is_unary(root(self))
    THEN LET substituted_first ==
                 substitute_operators(first(self), substitution_map)
         IN  IF root(self) \in DOMAIN substitution_map
             THEN substitute_variables(substitution_map[root(self)],
                                       (<<"p">> :> substituted_first))
             ELSE Formula(root(self), substituted_first, None)
    ELSE LET substituted_first ==
                 substitute_operators(first(self), substitution_map)
             substituted_second ==
                 substitute_operators(second(self), substitution_map)
         IN  IF root(self) \in DOMAIN substitution_map
             THEN substitute_variables(
                      substitution_map[root(self)],
                      (<<"p">> :> substituted_first)
                      @@ (<<"q">> :> substituted_second))
             ELSE Formula(root(self), substituted_first, substituted_second)

(***************************************************************************)
(* propositions/semantics.py.                                              *)
(***************************************************************************)
is_model(model) == \A key \in DOMAIN model : is_variable(key)

\* variables(model); named apart from Formula.variables
model_variables(model) == DOMAIN model

\* evaluate, lines 67-90: the value once both asserts have passed
RECURSIVE evaluate_value(_, _)
\* the same with '+' read as the inclusive or
evaluate_value_inclusive(formula, model) ==
    IF is_constant(root(formula)) THEN root(formula) = <<"T">>
    ELSE IF is_variable(root(formula)) THEN model[root(formula)]
    ELSE IF is_unary(root(formula))
    THEN ~evaluate_value(first(formula), model)
    ELSE LET first_value == evaluate_value(first(formula), model)
             second_value == evaluate_value(second(formula), model)
         IN  CASE root(formula) = <<"&">> -> first_value /\ second_value
               [] root(formula) = <<"|">> -> first_value \/ second_value
               [] root(formula) = <<"-", ">">> ->
                    (~first_value) \/ second_value
               [] root(formula) = <<"+">> -> first_value \/ second_value
               [] root(formula) = <<"<", "-", ">">> ->
                    first_value = second_value
               [] root(formula) = <<"-", "&">> ->
                    ~(first_value /\ second_value)
               [] root(formula) = <<"-", "|">> ->
                    ~(first_value \/ second_value)

evaluate_value(formula, model) ==
    IF is_constant(root(formula)) THEN root(formula) = <<"T">>
    ELSE IF is_variable(root(formula)) THEN model[root(formula)]
    ELSE IF is_unary(root(formula))
    THEN ~evaluate_value(first(formula), model)
    ELSE LET first_value == evaluate_value(first(formula), model)
             second_value == evaluate_value(second(formula), model)
         IN  CASE root(formula) = <<"&">> -> first_value /\ second_value
               [] root(formula) = <<"|">> -> first_value \/ second_value
               [] root(formula) = <<"-", ">">> ->
                    (~first_value) \/ second_value
               [] root(formula) = <<"+">> -> first_value # second_value
               [] root(formula) = <<"<", "-", ">">> ->
                    first_value = second_value
               [] root(formula) = <<"-", "&">> ->
                    ~(first_value /\ second_value)
               [] root(formula) = <<"-", "|">> ->
                    ~(first_value \/ second_value)

\* evaluate: "True", "False", or the AssertionError of lines 65-66
evaluate(formula, model) ==
    IF ~is_model(model) \/ ~(variables(formula) \subseteq model_variables(model))
    THEN "AssertionError"
    ELSE IF evaluate_value(formula, model) THEN "True" ELSE "False"

\* itertools.product([False, True], repeat=n) as a list: the last position
\* changes fastest
RECURSIVE product(_)
product(n) ==
    IF n = 0 THEN << << >> >>
    ELSE LET shorter == product(n - 1)
         IN  [j \in 1..(2 * Len(shorter)) |->
                 Append(shorter[(j + 1) \div 2], j % 2 = 0)]

\* dict(zip(variables, values)): a later pair replaces an earlier one of the
\* same key
dict_zip(variables_, values) ==
    [v \in {variables_[i] : i \in 1..Len(variables_)} |->
        values[CHOOSE i \in 1..Len(variables_) :
                  /\ variables_[i] = v
                  /\ \A j \in (i + 1)..Len(variables_) : variables_[j] # v]]

\* the value tuples of a product in which the first position changes fastest
RECURSIVE Reverse(_)
Reverse(seq) == IF seq = << >> THEN << >>
                ELSE Append(Reverse(Tail(seq)), Head(seq))

all_models_first_fastest(variables_) ==
    LET tuples == product(Len(variables_))
    IN  [j \in 1..Len(tuples) |-> dict_zip(variables_, Reverse(tuples[j]))]

\* list(all_models(variables)): the models in the order they are yielded
all_models(variables_) ==
    IF \E i \in 1..Len(variables_) : ~is_variable(variables_[i])
    THEN AssertionError
    ELSE LET tuples == product(Len(variables_))
         IN  [j \in 1..Len(tuples) |-> dict_zip(variables_, tuples[j])]

\* list(truth_values(formula, models))
truth_values(formula, models) ==
    [j \in 1..Len(models) |-> evaluate(formula, models[j])]

\* all(...) and any(...) of a list of truth values
all(values) == \A j \in 1..Len(values) : values[j] = "True"
any(values) == \E j \in 1..Len(values) : values[j] = "True"

is_tautology(formula) ==
    all(truth_values(formula, all_models(sorted(variables(formula)))))

is_contradiction(formula) ==
    ~any(truth_values(formula, all_models(sorted(variables(formula)))))

\* is_satisfiable with all for any
is_satisfiable_all(formula) ==
    all(truth_values(formula, all_models(sorted(variables(formula)))))

is_satisfiable(formula) ==
    any(truth_values(formula, all_models(sorted(variables(formula)))))

\* the loops of lines 222-224, 259-261, 284-286 and 321-323: the formulas of
\* a nonempty list joined, from the left, by the operator
RECURSIVE JoinFormulas(_, _)
JoinFormulas(operator, formulas) ==
    IF Len(formulas) = 1 THEN formulas[1]
    ELSE Formula(operator,
                 JoinFormulas(operator, SubSeq(formulas, 1, Len(formulas) - 1)),
                 formulas[Len(formulas)])

\* _synthesize_for_model with the literals of a disjunctive clause
synthesize_for_model_negated(model) ==
    IF ~is_model(model) \/ Cardinality(DOMAIN model) = 0 THEN AssertionError
    ELSE LET names == sorted(DOMAIN model)
             literals ==
                 [i \in 1..Len(names) |->
                     IF model[names[i]]
                     THEN Formula(<<"~">>, Formula(names[i], None, None), None)
                     ELSE Formula(names[i], None, None)]
         IN  JoinFormulas(<<"&">>, literals)

\* _synthesize_for_model
synthesize_for_model(model) ==
    IF ~is_model(model) \/ Cardinality(DOMAIN model) = 0 THEN AssertionError
    ELSE LET names == sorted(DOMAIN model)
             literals ==
                 [i \in 1..Len(names) |->
                     IF model[names[i]]
                     THEN Formula(names[i], None, None)
                     ELSE Formula(<<"~">>, Formula(names[i], None, None), None)]
         IN  JoinFormulas(<<"&">>, literals)

\* the indices up to n at which keep is true, in their order
RECURSIVE SelectIndices(_, _)
SelectIndices(n, keep) ==
    IF n = 0 THEN << >>
    ELSE IF keep[n] THEN Append(SelectIndices(n - 1, keep), n)
    ELSE SelectIndices(n - 1, keep)

\* len(list(zip(models, values)))
ZipLen(models, values) ==
    IF Len(models) < Len(values) THEN Len(models) ELSE Len(values)

synthesize(variables_, values) ==
    IF ~(Len(variables_) > 0) THEN AssertionError
    ELSE IF \E i \in 1..Len(variables_) : ~is_variable(variables_[i])
    THEN AssertionError
    ELSE LET models == all_models(variables_)
             chosen == SelectIndices(ZipLen(models, values), values)
             clauses == [i \in 1..Len(chosen) |->
                            synthesize_for_model(models[chosen[i]])]
         IN  IF clauses = << >>
             THEN LET first_var == variables_[1]
                  IN  Formula(<<"&">>, Formula(first_var, None, None),
                              Formula(<<"~">>, Formula(first_var, None, None),
                                      None))
             ELSE JoinFormulas(<<"|">>, clauses)

\* _synthesize_for_all_except_model with the literals of a conjunctive clause
synthesize_for_all_except_model_plain(model) ==
    IF ~is_model(model) \/ Cardinality(DOMAIN model) = 0 THEN AssertionError
    ELSE LET names == sorted(DOMAIN model)
             literals ==
                 [i \in 1..Len(names) |->
                     IF model[names[i]]
                     THEN Formula(names[i], None, None)
                     ELSE Formula(<<"~">>, Formula(names[i], None, None), None)]
         IN  JoinFormulas(<<"|">>, literals)

\* _synthesize_for_all_except_model
synthesize_for_all_except_model(model) ==
    IF ~is_model(model) \/ Cardinality(DOMAIN model) = 0 THEN AssertionError
    ELSE LET names == sorted(DOMAIN model)
             literals ==
                 [i \in 1..Len(names) |->
                     IF model[names[i]]
                     THEN Formula(<<"~">>, Formula(names[i], None, None), None)
                     ELSE Formula(names[i], None, None)]
         IN  JoinFormulas(<<"|">>, literals)

synthesize_cnf(variables_, values) ==
    IF ~(Len(variables_) > 0) THEN AssertionError
    ELSE IF \E i \in 1..Len(variables_) : ~is_variable(variables_[i])
    THEN AssertionError
    ELSE LET models == all_models(variables_)
             chosen == SelectIndices(ZipLen(models, values),
                                     [i \in 1..Len(values) |-> ~values[i]])
             clauses == [i \in 1..Len(chosen) |->
                            synthesize_for_all_except_model(models[chosen[i]])]
         IN  IF clauses = << >>
             THEN LET first_var == variables_[1]
                  IN  Formula(<<"|">>, Formula(first_var, None, None),
                              Formula(<<"~">>, Formula(first_var, None, None),
                                      None))
             ELSE JoinFormulas(<<"&">>, clauses)

(***************************************************************************)
(* propositions/operators.py.                                              *)
(***************************************************************************)
RECURSIVE to_not_and_or(_)
\* the same with the constants rewritten through the variable q
to_not_and_or_through_q(formula) ==
    IF is_variable(root(formula)) THEN Formula(root(formula), None, None)
    ELSE IF is_constant(root(formula))
    THEN LET p == Formula(<<"q">>, None, None)
         IN  IF root(formula) = <<"T">>
             THEN Formula(<<"|">>, p, Formula(<<"~">>, p, None))
             ELSE Formula(<<"&">>, p, Formula(<<"~">>, p, None))
    ELSE IF is_unary(root(formula))
    THEN Formula(<<"~">>, to_not_and_or(first(formula)), None)
    ELSE LET first_ == to_not_and_or(first(formula))
             second_ == to_not_and_or(second(formula))
         IN  CASE root(formula) = <<"&">> \/ root(formula) = <<"|">> ->
                    Formula(root(formula), first_, second_)
               [] root(formula) = <<"-", ">">> ->
                    Formula(<<"|">>, Formula(<<"~">>, first_, None), second_)
               [] root(formula) = <<"<", "-", ">">> ->
                    Formula(<<"|">>,
                            Formula(<<"&">>, first_, second_),
                            Formula(<<"&">>, Formula(<<"~">>, first_, None),
                                    Formula(<<"~">>, second_, None)))
               [] root(formula) = <<"+">> ->
                    Formula(<<"|">>,
                            Formula(<<"&">>, first_,
                                    Formula(<<"~">>, second_, None)),
                            Formula(<<"&">>, Formula(<<"~">>, first_, None),
                                    second_))
               [] root(formula) = <<"-", "&">> ->
                    Formula(<<"~">>, Formula(<<"&">>, first_, second_), None)
               [] root(formula) = <<"-", "|">> ->
                    Formula(<<"~">>, Formula(<<"|">>, first_, second_), None)

to_not_and_or(formula) ==
    IF is_variable(root(formula)) THEN Formula(root(formula), None, None)
    ELSE IF is_constant(root(formula))
    THEN LET p == Formula(<<"p">>, None, None)
         IN  IF root(formula) = <<"T">>
             THEN Formula(<<"|">>, p, Formula(<<"~">>, p, None))
             ELSE Formula(<<"&">>, p, Formula(<<"~">>, p, None))
    ELSE IF is_unary(root(formula))
    THEN Formula(<<"~">>, to_not_and_or(first(formula)), None)
    ELSE LET first_ == to_not_and_or(first(formula))
             second_ == to_not_and_or(second(formula))
         IN  CASE root(formula) = <<"&">> \/ root(formula) = <<"|">> ->
                    Formula(root(formula), first_, second_)
               [] root(formula) = <<"-", ">">> ->
                    Formula(<<"|">>, Formula(<<"~">>, first_, None), second_)
               [] root(formula) = <<"<", "-", ">">> ->
                    Formula(<<"|">>,
                            Formula(<<"&">>, first_, second_),
                            Formula(<<"&">>, Formula(<<"~">>, first_, None),
                                    Formula(<<"~">>, second_, None)))
               [] root(formula) = <<"+">> ->
                    Formula(<<"|">>,
                            Formula(<<"&">>, first_,
                                    Formula(<<"~">>, second_, None)),
                            Formula(<<"&">>, Formula(<<"~">>, first_, None),
                                    second_))
               [] root(formula) = <<"-", "&">> ->
                    Formula(<<"~">>, Formula(<<"&">>, first_, second_), None)
               [] root(formula) = <<"-", "|">> ->
                    Formula(<<"~">>, Formula(<<"|">>, first_, second_), None)

\* convert of to_not_and
RECURSIVE to_not_and_convert(_)
to_not_and_convert(f) ==
    IF is_variable(root(f)) THEN Formula(root(f), None, None)
    ELSE IF is_unary(root(f))
    THEN Formula(<<"~">>, to_not_and_convert(first(f)), None)
    ELSE IF is_binary(root(f)) /\ root(f) = <<"&">>
    THEN Formula(<<"&">>, to_not_and_convert(first(f)),
                 to_not_and_convert(second(f)))
    ELSE IF is_binary(root(f)) /\ root(f) = <<"|">>
    THEN LET left == to_not_and_convert(first(f))
             right == to_not_and_convert(second(f))
         IN  Formula(<<"~">>,
                     Formula(<<"&">>, Formula(<<"~">>, left, None),
                             Formula(<<"~">>, right, None)),
                     None)
    ELSE IF is_constant(root(f)) THEN to_not_and_convert(to_not_and_or(f))
    ELSE AssertionError

\* the same without the pass that removes '|'
to_not_and_unconverted(formula) == to_not_and_or(formula)

to_not_and(formula) == to_not_and_convert(to_not_and_or(formula))

\* convert of to_nand
RECURSIVE to_nand_convert(_)
to_nand_convert(f) ==
    IF is_variable(root(f)) THEN Formula(root(f), None, None)
    ELSE IF is_unary(root(f))
    THEN LET inner == to_nand_convert(first(f))
         IN  Formula(<<"-", "&">>, inner, inner)
    ELSE IF is_binary(root(f)) /\ root(f) = <<"&">>
    THEN LET left == to_nand_convert(first(f))
             right == to_nand_convert(second(f))
             nand == Formula(<<"-", "&">>, left, right)
         IN  Formula(<<"-", "&">>, nand, nand)
    ELSE IF is_constant(root(f)) THEN to_nand_convert(to_not_and(f))
    ELSE AssertionError

to_nand(formula) == to_nand_convert(to_not_and(formula))

\* convert of to_implies_not
RECURSIVE to_implies_not_convert(_)
to_implies_not_convert(f) ==
    IF is_variable(root(f)) THEN Formula(root(f), None, None)
    ELSE IF is_unary(root(f))
    THEN Formula(<<"~">>, to_implies_not_convert(first(f)), None)
    ELSE IF is_binary(root(f)) /\ root(f) = <<"&">>
    THEN LET left == to_implies_not_convert(first(f))
             right == to_implies_not_convert(second(f))
         IN  Formula(<<"~">>,
                     Formula(<<"-", ">">>, left, Formula(<<"~">>, right, None)),
                     None)
    ELSE IF is_binary(root(f)) /\ root(f) = <<"|">>
    THEN LET left == to_implies_not_convert(first(f))
             right == to_implies_not_convert(second(f))
         IN  Formula(<<"-", ">">>, Formula(<<"~">>, left, None), right)
    ELSE IF is_constant(root(f)) THEN to_implies_not_convert(to_not_and_or(f))
    ELSE AssertionError

to_implies_not(formula) == to_implies_not_convert(to_not_and_or(formula))

\* convert of to_implies_false
RECURSIVE to_implies_false_convert(_)
\* the same with the operands of the implication for '~' exchanged
to_implies_false_convert_swapped(f) ==
    IF is_variable(root(f)) THEN Formula(root(f), None, None)
    ELSE IF is_constant(root(f))
    THEN IF root(f) = <<"F">> THEN Formula(<<"F">>, None, None)
         ELSE Formula(<<"-", ">">>, Formula(<<"F">>, None, None),
                      Formula(<<"F">>, None, None))
    ELSE IF is_unary(root(f))
    THEN LET inner == to_implies_false_convert(first(f))
         IN  Formula(<<"-", ">">>, Formula(<<"F">>, None, None), inner)
    ELSE IF is_binary(root(f)) /\ root(f) = <<"-", ">">>
    THEN Formula(<<"-", ">">>, to_implies_false_convert(first(f)),
                 to_implies_false_convert(second(f)))
    ELSE AssertionError

to_implies_false_convert(f) ==
    IF is_variable(root(f)) THEN Formula(root(f), None, None)
    ELSE IF is_constant(root(f))
    THEN IF root(f) = <<"F">> THEN Formula(<<"F">>, None, None)
         ELSE Formula(<<"-", ">">>, Formula(<<"F">>, None, None),
                      Formula(<<"F">>, None, None))
    ELSE IF is_unary(root(f))
    THEN LET inner == to_implies_false_convert(first(f))
         IN  Formula(<<"-", ">">>, inner, Formula(<<"F">>, None, None))
    ELSE IF is_binary(root(f)) /\ root(f) = <<"-", ">">>
    THEN Formula(<<"-", ">">>, to_implies_false_convert(first(f)),
                 to_implies_false_convert(second(f)))
    ELSE AssertionError

to_implies_false(formula) == to_implies_false_convert(to_implies_not(formula))


(***************************************************************************)
(* The formulas a client builds with the constructor.                      *)
(***************************************************************************)
BinaryOperators ==
    {<<"&">>, <<"|">>, <<"-", ">">>, <<"+">>, <<"<", "-", ">">>,
     <<"-", "&">>, <<"-", "|">>}

\* all formulas of at most n nodes over the given leaves
FormulasUpTo(n, leaves) ==
    LET T[k \in 1..n] ==
          IF k = 1 THEN {Formula(l, None, None) : l \in leaves}
          ELSE {Formula(<<"~">>, f, None) : f \in T[k - 1]}
               \cup UNION {UNION {{Formula(b, x, y) : x \in T[i],
                                                      y \in T[k - 1 - i]} :
                                  i \in 1..(k - 2)} : b \in BinaryOperators}
    IN  UNION {T[k] : k \in 1..n}

ConverterInputs ==
    FormulasUpTo(MaxNodes, {<<"p">>, <<"q">>, <<"T">>, <<"F">>})

NandInputs ==
    FormulasUpTo(MaxNandNodes, {<<"p">>, <<"q">>, <<"T">>, <<"F">>})

(***************************************************************************)
(* Calls.                                                                  *)
(***************************************************************************)
Init == op = "idle" /\ args = << >> /\ ret = None

Return == op # "idle" /\ op' = "idle" /\ args' = << >> /\ ret' = None

CallToNotAndOr ==
    /\ op = "idle"
    /\ \E f \in ConverterInputs :
          op' = "to_not_and_or" /\ args' = <<f>> /\ ret' = to_not_and_or(f)

CallToNotAnd ==
    /\ op = "idle"
    /\ \E f \in ConverterInputs :
          op' = "to_not_and" /\ args' = <<f>> /\ ret' = to_not_and(f)

CallToNand ==
    /\ op = "idle"
    /\ \E f \in NandInputs :
          op' = "to_nand" /\ args' = <<f>> /\ ret' = to_nand(f)

CallToImpliesNot ==
    /\ op = "idle"
    /\ \E f \in ConverterInputs :
          op' = "to_implies_not" /\ args' = <<f>> /\ ret' = to_implies_not(f)

CallToImpliesFalse ==
    /\ op = "idle"
    /\ \E f \in ConverterInputs :
          op' = "to_implies_false" /\ args' = <<f>> /\ ret' = to_implies_false(f)

NextConverters ==
    \/ CallToNotAndOr
    \/ CallToNotAnd
    \/ CallToNand
    \/ CallToImpliesNot
    \/ CallToImpliesFalse
    \/ Return

SpecConverters == Init /\ [][NextConverters]_vars

(***************************************************************************)
(* Claims about the converters.                                            *)
(***************************************************************************)
Converters ==
    {"to_not_and_or", "to_not_and", "to_nand", "to_implies_not",
     "to_implies_false"}

\* all models over the given set of variable names
ModelsOver(names) == [names -> BOOLEAN]

\* C1 as stated: a converter's result evaluates, in every model whose keys
\* are exactly the variables of the given formula, to the value of the given
\* formula.
C1_AsStated ==
    op \in Converters =>
        \A m \in ModelsOver(variables(args[1])) :
            /\ evaluate(args[1], m) \in {"True", "False"}
            /\ evaluate(ret, m) = evaluate(args[1], m)

\* C1, amended: a converter's result evaluates, in every model whose keys are
\* exactly the variables of the given formula and of the result (the result
\* has the extra variable p when the given formula has a constant), to the
\* value of the given formula.
C1_Equivalent ==
    op \in Converters =>
        /\ ret # AssertionError
        /\ \A m \in ModelsOver(variables(args[1]) \cup variables(ret)) :
              /\ evaluate(args[1], m) \in {"True", "False"}
              /\ evaluate(ret, m) = evaluate(args[1], m)

\* a converter has been applied to a formula with a constant and no p, under
\* an operator outside every target basis
C1_Witness ==
    /\ op = "to_implies_false"
    /\ root(args[1]) = <<"<", "-", ">">>
    /\ <<"T">> \in operators(args[1])
    /\ <<"p">> \notin variables(args[1])
    /\ <<"p">> \in variables(ret)

\* C2: the operators of each converter's result are inside its target basis,
\* and no converter fails its assert.
C2_TargetBasis ==
    op \in Converters =>
        /\ ret # AssertionError
        /\ op = "to_not_and_or" =>
              operators(ret) \subseteq {<<"~">>, <<"&">>, <<"|">>}
        /\ op = "to_not_and" => operators(ret) \subseteq {<<"~">>, <<"&">>}
        /\ op = "to_nand" => operators(ret) \subseteq {<<"-", "&">>}
        /\ op = "to_implies_not" =>
              operators(ret) \subseteq {<<"-", ">">>, <<"~">>}
        /\ op = "to_implies_false" =>
              operators(ret) \subseteq {<<"-", ">">>, <<"F">>}

\* a formula using an operator and a constant outside the target basis has
\* been converted
C2_Witness ==
    /\ op = "to_nand"
    /\ root(args[1]) \in {<<"+">>, <<"-", "|">>, <<"<", "-", ">">>}
    /\ <<"F">> \in operators(args[1])
    /\ operators(ret) = {<<"-", "&">>}


(***************************************************************************)
(* Printing and parsing back.                                              *)
(***************************************************************************)
SyntaxInputs ==
    FormulasUpTo(MaxParseNodes, {<<"p">>, <<"x", "1", "2">>, <<"T">>})

\* Formula.is_formula(str(f))
CallIsFormula ==
    /\ op = "idle"
    /\ \E f \in SyntaxInputs :
          op' = "is_formula" /\ args' = <<f, repr(f)>>
          /\ ret' = is_formula(repr(f))

\* Formula.parse(str(f))
CallParse ==
    /\ op = "idle"
    /\ \E f \in SyntaxInputs :
          op' = "parse" /\ args' = <<f, repr(f)>> /\ ret' = parse(repr(f))

\* Formula.parse_polish(f.polish())
CallParsePolish ==
    /\ op = "idle"
    /\ \E f \in SyntaxInputs :
          op' = "parse_polish" /\ args' = <<f, polish(f)>>
          /\ ret' = parse_polish(polish(f))

NextSyntax == CallIsFormula \/ CallParse \/ CallParsePolish \/ Return

SpecSyntax == Init /\ [][NextSyntax]_vars

MultiCharacterOperators ==
    {<<"-", ">">>, <<"<", "-", ">">>, <<"-", "&">>, <<"-", "|">>}

\* C3: the text str(f) of a formula f is accepted by is_formula, and parse
\* gives back f: the same tree, and equal by Formula.__eq__.
C3_InfixRoundTrip ==
    /\ op = "is_formula" => ret = TRUE
    /\ op = "parse" => ret = args[1] /\ FormulaEq(ret, args[1])

\* a formula nesting two multi-character operators, over a variable name with
\* digits, has been printed and parsed back
C3_Witness ==
    /\ op = "parse"
    /\ root(args[1]) = <<"<", "-", ">">>
    /\ root(first(args[1])) \in MultiCharacterOperators
    /\ <<"x", "1", "2">> \in variables(args[1])
    /\ ret = args[1]

\* C4: parse_polish gives back f from f.polish(), and the operator token at
\* the front of the text of a binary f is matched at its full length.
C4_PolishRoundTrip ==
    op = "parse_polish" =>
        /\ ret = args[1]
        /\ FormulaEq(ret, args[1])
        /\ is_binary(root(args[1])) =>
              MatchOperator(args[2], max_op_length(args[2]))
                  = Len(root(args[1]))

\* a formula nesting two multi-character operators has been printed in polish
\* notation and parsed back
C4_Witness ==
    /\ op = "parse_polish"
    /\ root(args[1]) \in MultiCharacterOperators
    /\ root(second(args[1])) = <<"<", "-", ">">>
    /\ <<"x", "1", "2">> \in variables(args[1])
    /\ ret = args[1]

(***************************************************************************)
(* Substituting.                                                           *)
(***************************************************************************)
\* ((p->p)|r), {'p': (q&r), 'r': p} and (((q&r)->(q&r))|p) of the docstring of
\* substitute_variables
ExampleVariablesFormula ==
    Formula(<<"|">>,
            Formula(<<"-", ">">>, Formula(<<"p">>, None, None),
                    Formula(<<"p">>, None, None)),
            Formula(<<"r">>, None, None))

ExampleVariablesMap ==
    (<<"p">> :> Formula(<<"&">>, Formula(<<"q">>, None, None),
                        Formula(<<"r">>, None, None)))
    @@ (<<"r">> :> Formula(<<"p">>, None, None))

ExampleVariablesResult ==
    LET qr == Formula(<<"&">>, Formula(<<"q">>, None, None),
                      Formula(<<"r">>, None, None))
    IN  Formula(<<"|">>, Formula(<<"-", ">">>, qr, qr),
                Formula(<<"p">>, None, None))

\* ((x&y)&~z), {'&': ~(~p|~q)} and ~(~~(~x|~y)|~~z) of the docstring of
\* substitute_operators
ExampleOperatorsFormula ==
    Formula(<<"&">>,
            Formula(<<"&">>, Formula(<<"x">>, None, None),
                    Formula(<<"y">>, None, None)),
            Formula(<<"~">>, Formula(<<"z">>, None, None), None))

ExampleOperatorsTemplate ==
    Formula(<<"~">>,
            Formula(<<"|">>,
                    Formula(<<"~">>, Formula(<<"p">>, None, None), None),
                    Formula(<<"~">>, Formula(<<"q">>, None, None), None)),
            None)

ExampleOperatorsMap == <<"&">> :> ExampleOperatorsTemplate

ExampleOperatorsResult ==
    LET Not(f) == Formula(<<"~">>, f, None)
        Or(f, g) == Formula(<<"|">>, f, g)
        x == Formula(<<"x">>, None, None)
        y == Formula(<<"y">>, None, None)
        z == Formula(<<"z">>, None, None)
    IN  Not(Or(Not(Not(Or(Not(x), Not(y)))), Not(Not(z))))

SubstituteVariablesInputs ==
    FormulasUpTo(MaxSubstNodes, {<<"p">>, <<"r">>, <<"T">>})
    \cup {ExampleVariablesFormula}

\* the formulas substituted in
Replacements ==
    {Formula(<<"p">>, None, None),
     Formula(<<"&">>, Formula(<<"q">>, None, None),
             Formula(<<"r">>, None, None)),
     Formula(<<"~">>, Formula(<<"r">>, None, None), None)}

VariableMaps ==
    UNION {[K -> Replacements] : K \in SUBSET {<<"p">>, <<"r">>}}

SubstituteOperatorsInputs ==
    FormulasUpTo(MaxSubstNodes, {<<"p">>, <<"q">>, <<"T">>})
    \cup {ExampleOperatorsFormula}

\* the templates a map may give each constant or operator
OperatorTemplates ==
    (<<"&">> :> {ExampleOperatorsTemplate,
                 Formula(<<"|">>, Formula(<<"q">>, None, None),
                         Formula(<<"p">>, None, None))})
    @@ (<<"|">> :> {Formula(<<"&">>, Formula(<<"p">>, None, None),
                            Formula(<<"q">>, None, None))})
    @@ (<<"~">> :> {Formula(<<"-", "&">>, Formula(<<"p">>, None, None),
                            Formula(<<"p">>, None, None))})
    @@ (<<"T">> :> {Formula(<<"|">>, Formula(<<"p">>, None, None),
                            Formula(<<"~">>, Formula(<<"p">>, None, None),
                                    None))})

OperatorMaps ==
    UNION {{m \in [K -> UNION {OperatorTemplates[k] : k \in K}] :
               \A k \in K : m[k] \in OperatorTemplates[k]} :
           K \in SUBSET DOMAIN OperatorTemplates}

CallSubstituteVariables ==
    /\ op = "idle"
    /\ \E f \in SubstituteVariablesInputs, m \in VariableMaps :
          op' = "substitute_variables" /\ args' = <<f, m>>
          /\ ret' = substitute_variables(f, m)

CallSubstituteOperators ==
    /\ op = "idle"
    /\ \E f \in SubstituteOperatorsInputs, m \in OperatorMaps :
          op' = "substitute_operators" /\ args' = <<f, m>>
          /\ ret' = substitute_operators(f, m)

NextSubstitution ==
    CallSubstituteVariables \/ CallSubstituteOperators \/ Return

SpecSubstitution == Init /\ [][NextSubstitution]_vars

\* the text `string` with every variable name that is a key of the map
\* replaced, once and left to right, by the text of the formula mapped to it
RECURSIVE ReplaceNames(_, _)
ReplaceNames(string, substitution_map) ==
    IF string = << >> THEN << >>
    ELSE IF Ord[string[1]] >= Ord["p"] /\ Ord[string[1]] <= Ord["z"]
    THEN LET index == ScanDecimals(string, 1)
             name == StrTo(string, index)
         IN  (IF name \in DOMAIN substitution_map
              THEN repr(substitution_map[name]) ELSE name)
             \o ReplaceNames(StrFrom(string, index), substitution_map)
    ELSE <<string[1]>> \o ReplaceNames(StrFrom(string, 1), substitution_map)

\* C9: substitute_variables replaces, in one simultaneous pass, each variable
\* of f that is a key of the map by the formula mapped to it and changes
\* nothing else: the text of the result is the text of f with each such name
\* replaced once; ((p->p)|r) with {p: (q&r), r: p} gives (((q&r)->(q&r))|p).
C9_SinglePass ==
    op = "substitute_variables" =>
        /\ ret # AssertionError
        /\ repr(ret) = ReplaceNames(repr(args[1]), args[2])
        /\ (args[1] = ExampleVariablesFormula /\ args[2] = ExampleVariablesMap)
              => ret = ExampleVariablesResult

\* the docstring's substitution has been made, the r put in for p left alone
C9_Witness ==
    /\ op = "substitute_variables"
    /\ args[1] = ExampleVariablesFormula
    /\ args[2] = ExampleVariablesMap
    /\ ret = ExampleVariablesResult

\* the template with its leaves p and q replaced by a and b (None: left as
\* it is)
RECURSIVE Instantiate(_, _, _)
Instantiate(template, a, b) ==
    IF Len(template) = 1
    THEN IF root(template) = <<"p">> /\ a # None THEN a
         ELSE IF root(template) = <<"q">> /\ b # None THEN b
         ELSE template
    ELSE IF Len(template) = 2
    THEN <<root(template), Instantiate(first(template), a, b)>>
    ELSE <<root(template), Instantiate(first(template), a, b),
           Instantiate(second(template), a, b)>>

\* what C10 says substitute_operators returns
RECURSIVE Substituted(_, _)
Substituted(f, substitution_map) ==
    LET a == IF Len(f) >= 2 THEN Substituted(first(f), substitution_map)
             ELSE None
        b == IF Len(f) = 3 THEN Substituted(second(f), substitution_map)
             ELSE None
    IN  IF Len(f) = 1 /\ is_variable(root(f)) THEN f
        ELSE IF root(f) \in DOMAIN substitution_map
        THEN Instantiate(substitution_map[root(f)], a, b)
        ELSE IF Len(f) = 1 THEN f
        ELSE IF Len(f) = 2 THEN <<root(f), a>>
        ELSE <<root(f), a, b>>

\* C10: substitute_operators replaces every mapped constant or operator of f
\* by its template, p and q bound to the substituted operands, keeps the
\* unmapped ones over their substituted operands, and does not substitute
\* inside a template; ((x&y)&~z) with {'&': ~(~p|~q)} gives ~(~~(~x|~y)|~~z).
C10_OperatorTemplates ==
    op = "substitute_operators" =>
        /\ ret = Substituted(args[1], args[2])
        /\ (args[1] = ExampleOperatorsFormula /\ args[2] = ExampleOperatorsMap)
              => ret = ExampleOperatorsResult

\* the docstring's substitution has been made
C10_Witness ==
    /\ op = "substitute_operators"
    /\ args[1] = ExampleOperatorsFormula
    /\ args[2] = ExampleOperatorsMap
    /\ ret = ExampleOperatorsResult

\* operands holding p and q have been put into a template that exchanges
\* them, under an operator whose template is made of a mapped operator
C10_WitnessNested ==
    /\ op = "substitute_operators"
    /\ root(args[1]) = <<"&">>
    /\ DOMAIN args[2] = {<<"&">>, <<"|">>}
    /\ root(args[2][<<"&">>]) = <<"|">>
    /\ first(args[1]) = <<<<"p">>>>
    /\ root(second(args[1])) = <<"~">>
    /\ ret = <<<<"|">>, second(args[1]), <<<<"p">>>>>>


(***************************************************************************)
(* Models, classification and synthesis.                                   *)
(***************************************************************************)
VariableNames == {<<"p">>, <<"q">>, <<"x", "1">>}

\* the variable lists a caller can pass: any order, repetitions included
VariableLists == UNION {[1..n -> VariableNames] : n \in 0..MaxVars}

RECURSIVE Pow2(_)
Pow2(n) == IF n = 0 THEN 1 ELSE 2 * Pow2(n - 1)

ClassifyInputs == ConverterInputs

CallAllModels ==
    /\ op = "idle"
    /\ \E vs \in VariableLists :
          op' = "all_models" /\ args' = <<vs>> /\ ret' = all_models(vs)

CallSynthesize ==
    /\ op = "idle"
    /\ \E vs \in VariableLists \ {<< >>} :
          \E values \in [1..Pow2(Len(vs)) -> BOOLEAN] :
              op' = "synthesize" /\ args' = <<vs, values>>
              /\ ret' = synthesize(vs, values)

CallSynthesizeCnf ==
    /\ op = "idle"
    /\ \E vs \in VariableLists \ {<< >>} :
          \E values \in [1..Pow2(Len(vs)) -> BOOLEAN] :
              op' = "synthesize_cnf" /\ args' = <<vs, values>>
              /\ ret' = synthesize_cnf(vs, values)

\* the caller takes a formula to classify; ret collects the answers
StartClassifying ==
    /\ op = "idle"
    /\ \E f \in ClassifyInputs :
          op' = "classifying" /\ args' = <<f>> /\ ret' = << >>

CallIsTautology ==
    /\ op = "classifying"
    /\ "is_tautology" \notin DOMAIN ret
    /\ ret' = ret @@ ("is_tautology" :> is_tautology(args[1]))
    /\ UNCHANGED <<op, args>>

CallIsContradiction ==
    /\ op = "classifying"
    /\ "is_contradiction" \notin DOMAIN ret
    /\ ret' = ret @@ ("is_contradiction" :> is_contradiction(args[1]))
    /\ UNCHANGED <<op, args>>

CallIsSatisfiable ==
    /\ op = "classifying"
    /\ "is_satisfiable" \notin DOMAIN ret
    /\ ret' = ret @@ ("is_satisfiable" :> is_satisfiable(args[1]))
    /\ UNCHANGED <<op, args>>

NextSemantics ==
    \/ CallAllModels
    \/ CallSynthesize
    \/ CallSynthesizeCnf
    \/ StartClassifying
    \/ CallIsTautology
    \/ CallIsContradiction
    \/ CallIsSatisfiable
    \/ Return

SpecSemantics == Init /\ [][NextSemantics]_vars

\* no name occurs twice in the list
Distinct(seq) == \A i, j \in 1..Len(seq) : seq[i] = seq[j] => i = j

\* the truth values, as evaluate gives them, of a list of booleans
Expected(values) ==
    [j \in 1..Len(values) |-> IF values[j] THEN "True" ELSE "False"]

\* C5 as stated: for any nonempty variable list, the synthesized DNF formula
\* has the given values on the models of all_models, in order.
C5_AsStated ==
    op = "synthesize" =>
        /\ ret # AssertionError
        /\ truth_values(ret, all_models(args[1])) = Expected(args[2])

\* C5, amended: for any nonempty list of distinct variable names, the
\* synthesized DNF formula has the given values on the models of all_models,
\* in order.
C5_SynthesizeRoundTrip ==
    (op = "synthesize" /\ Distinct(args[1])) =>
        /\ ret # AssertionError
        /\ truth_values(ret, all_models(args[1])) = Expected(args[2])

\* a DNF formula has been synthesized over an unsorted list of two names for
\* a table with true and false rows
C5_Witness ==
    /\ op = "synthesize"
    /\ args[1] = << <<"x", "1">>, <<"p">> >>
    /\ args[2] = <<FALSE, TRUE, TRUE, FALSE>>
    /\ root(ret) = <<"|">>
    /\ truth_values(ret, all_models(args[1]))
          = <<"False", "True", "True", "False">>

\* v | ~v over the first variable of the list
TautologyOver(variables_) ==
    Formula(<<"|">>, Formula(variables_[1], None, None),
            Formula(<<"~">>, Formula(variables_[1], None, None), None))

\* C6 as stated: for any nonempty variable list, the synthesized CNF formula
\* has the given values on the models of all_models, in order, and is
\* (v|~v) over the first variable when no value is false.
C6_AsStated ==
    op = "synthesize_cnf" =>
        /\ ret # AssertionError
        /\ truth_values(ret, all_models(args[1])) = Expected(args[2])
        /\ (\A j \in 1..Len(args[2]) : args[2][j])
              => ret = TautologyOver(args[1])

\* C6, amended: the same for any nonempty list of distinct variable names.
C6_SynthesizeCnfRoundTrip ==
    (op = "synthesize_cnf" /\ Distinct(args[1])) =>
        /\ ret # AssertionError
        /\ truth_values(ret, all_models(args[1])) = Expected(args[2])
        /\ (\A j \in 1..Len(args[2]) : args[2][j])
              => ret = TautologyOver(args[1])

\* a CNF formula has been synthesized over an unsorted list of two names for
\* a table with two false rows
C6_Witness ==
    /\ op = "synthesize_cnf"
    /\ args[1] = << <<"q">>, <<"p">> >>
    /\ args[2] = <<TRUE, FALSE, FALSE, TRUE>>
    /\ root(ret) = <<"&">>
    /\ truth_values(ret, all_models(args[1]))
          = <<"True", "False", "False", "True">>

\* a CNF formula has been synthesized for a table with no false row
C6_WitnessTautology ==
    /\ op = "synthesize_cnf"
    /\ args[1] = << <<"q">>, <<"p">> >>
    /\ args[2] = <<TRUE, TRUE, TRUE, TRUE>>
    /\ ret = TautologyOver(<< <<"q">> >>)

\* bit number i (0 the lowest) of k
Bit(k, i) == (k \div Pow2(i)) % 2 = 1

\* the k-th model of the list is over the names of vs and gives the i-th
\* name of vs the bit of k - 1 that the last name has lowest
CountsInBinary(vs, models) ==
    \A k \in 1..Len(models) :
        /\ DOMAIN models[k] = {vs[i] : i \in 1..Len(vs)}
        /\ \A i \in 1..Len(vs) : models[k][vs[i]] = Bit(k - 1, Len(vs) - i)

\* 2^|vs| models, every model over the names of vs among them, none twice
EachModelOnce(vs, models) ==
    /\ Len(models) = Pow2(Len(vs))
    /\ {models[k] : k \in 1..Len(models)}
          = ModelsOver({vs[i] : i \in 1..Len(vs)})
    /\ \A k, l \in 1..Len(models) : models[k] = models[l] => k = l

\* C7 as stated: for any variable list, all_models yields the 2^|vs| models
\* over the names of vs, each once, in lexicographic order, False first.
C7_AsStated ==
    op = "all_models" =>
        EachModelOnce(args[1], ret) /\ CountsInBinary(args[1], ret)

\* C7, amended: the same for any list of distinct variable names; for
\* ['p','q'] the models are FF, FT, TF, TT.
C7_AllModels ==
    (op = "all_models" /\ Distinct(args[1])) =>
        /\ EachModelOnce(args[1], ret)
        /\ CountsInBinary(args[1], ret)
        /\ args[1] = << <<"p">>, <<"q">> >> =>
              ret = << (<<"p">> :> FALSE) @@ (<<"q">> :> FALSE),
                       (<<"p">> :> FALSE) @@ (<<"q">> :> TRUE),
                       (<<"p">> :> TRUE) @@ (<<"q">> :> FALSE),
                       (<<"p">> :> TRUE) @@ (<<"q">> :> TRUE) >>

\* the models over ['q', 'p'], a list that is not sorted, have been listed
C7_Witness ==
    /\ op = "all_models"
    /\ args[1] = << <<"q">>, <<"p">> >>
    /\ Len(ret) = Pow2(Len(args[1]))
    /\ ret[2] = (<<"q">> :> FALSE) @@ (<<"p">> :> TRUE)

\* C8: of is_tautology(f), is_contradiction(f) and (is_satisfiable(f) and not
\* is_tautology(f)) exactly one holds; a tautology is satisfiable and a
\* contradiction is not.
C8_Trichotomy ==
    (op = "classifying"
     /\ DOMAIN ret = {"is_tautology", "is_contradiction", "is_satisfiable"}) =>
        LET tautology == ret["is_tautology"]
            contradiction == ret["is_contradiction"]
            satisfiable == ret["is_satisfiable"]
            contingent == satisfiable /\ ~tautology
        IN  /\ tautology \/ contradiction \/ contingent
            /\ ~(tautology /\ contradiction)
            /\ ~(tautology /\ contingent)
            /\ ~(contradiction /\ contingent)
            /\ tautology => satisfiable
            /\ contradiction => ~satisfiable

\* a formula without variables has been classified: a tautology
C8_Witness ==
    /\ op = "classifying"
    /\ DOMAIN ret = {"is_tautology", "is_contradiction", "is_satisfiable"}
    /\ variables(args[1]) = {}
    /\ is_binary(root(args[1]))
    /\ ret["is_tautology"] /\ ret["is_satisfiable"] /\ ~ret["is_contradiction"]

\* a formula with variables has been classified: satisfiable, no tautology
C8_WitnessContingent ==
    /\ op = "classifying"
    /\ DOMAIN ret = {"is_tautology", "is_contradiction", "is_satisfiable"}
    /\ variables(args[1]) = {<<"p">>, <<"q">>}
    /\ ~ret["is_tautology"] /\ ret["is_satisfiable"] /\ ~ret["is_contradiction"]


(***************************************************************************)
(* The parser on arbitrary text: every short string over TextAlphabet, and *)
(* the texts of formulas with one character inserted, deleted or replaced, *)
(* or cut off at any position.                                             *)
(***************************************************************************)
\* short strings have at most this many characters
MaxTextLen == 3
\* the formulas whose texts are edited have at most this many nodes
MaxTextNodes == 3

TextAlphabet == {"(", ")", "~", "&", "|", "-", ">", "<", "p", "1", "T"}

RECURSIVE StringsUpTo(_)
StringsUpTo(n) ==
    IF n = 0 THEN {<< >>}
    ELSE LET shorter == StringsUpTo(n - 1)
         IN  shorter \cup {Append(s, c) : s \in shorter, c \in TextAlphabet}

InsertAt(s, i, c) == SubSeq(s, 1, i) \o <<c>> \o SubSeq(s, i + 1, Len(s))
DeleteAt(s, i) == SubSeq(s, 1, i - 1) \o SubSeq(s, i + 1, Len(s))
ReplaceAt(s, i, c) == [s EXCEPT ![i] = c]

EditedTexts(s) ==
    {s}
    \cup {StrTo(s, i) : i \in 0..Len(s)}
    \cup {DeleteAt(s, i) : i \in 1..Len(s)}
    \cup {InsertAt(s, i, c) : i \in 0..Len(s), c \in TextAlphabet}
    \cup {ReplaceAt(s, i, c) : i \in 1..Len(s), c \in TextAlphabet}

TextInputs ==
    StringsUpTo(MaxTextLen)
    \cup UNION {EditedTexts(repr(f)) :
                   f \in FormulasUpTo(MaxTextNodes,
                                      {<<"p">>, <<"x", "1", "2">>})}

\* Formula._parse_prefix(s)
CallParsePrefixText ==
    /\ op = "idle"
    /\ \E s \in TextInputs :
          op' = "_parse_prefix" /\ args' = <<s>>
          /\ ret' = Formula_parse_prefix(s)

\* Formula.is_formula(s)
CallIsFormulaText ==
    /\ op = "idle"
    /\ \E s \in TextInputs :
          op' = "is_formula" /\ args' = <<s>> /\ ret' = is_formula(s)

\* Formula.parse(s)
CallParseText ==
    /\ op = "idle"
    /\ \E s \in TextInputs :
          op' = "parse" /\ args' = <<s>> /\ ret' = parse(s)

NextText == CallParsePrefixText \/ CallIsFormulaText \/ CallParseText \/ Return

SpecText == Init /\ [][NextText]_vars

\* the characters of a variable name: its first, and the others
NameLetters == {"p", "q", "r", "x", "y", "z"}
NameDigits == {"0", "1", "2", "6", "7", "9"}

\* the grammar of the canonical text, read off a whole string: a variable
\* name, a constant, '~' before a canonical text, or two canonical texts
\* around a binary operator in one pair of parentheses
RECURSIVE IsCanonicalText(_)
IsCanonicalText(s) ==
    /\ Len(s) > 0
    /\ \/ /\ s[1] \in NameLetters
          /\ \A i \in 2..Len(s) : s[i] \in NameDigits
       \/ s = <<"T">> \/ s = <<"F">>
       \/ s[1] = "~" /\ IsCanonicalText(Tail(s))
       \/ /\ s[1] = "(" /\ s[Len(s)] = ")"
          /\ \E i \in 2..(Len(s) - 1) : \E j \in i..(Len(s) - 1) :
                /\ SubSeq(s, i, j) \in BinaryOperators
                /\ IsCanonicalText(SubSeq(s, 2, i - 1))
                /\ IsCanonicalText(SubSeq(s, j + 1, Len(s) - 1))

\* s is a canonical text followed by one more character
HasExtraCharacter(s) == Len(s) > 1 /\ IsCanonicalText(StrTo(s, Len(s) - 1))

\* the extra character is a digit behind a variable name, which it extends
ExtendsVariableName(s) ==
    /\ s[Len(s)] \in NameDigits
    /\ s[Len(s) - 1] \in NameLetters \cup NameDigits

\* s is a canonical text with one ')' left out
MissesParenthesis(s) ==
    \E i \in 0..Len(s) : IsCanonicalText(InsertAt(s, i, ")"))

\* s is a canonical text with one ')' replaced by another character
MismatchesParenthesis(s) ==
    \E i \in 1..Len(s) :
        s[i] # ")" /\ IsCanonicalText(ReplaceAt(s, i, ")"))

\* C11 as stated: is_formula accepts exactly the canonical texts, parse gives
\* back a formula printed as the text, and every canonical text followed by
\* any one extra character is rejected.
C11_AsStated ==
    /\ op = "is_formula" =>
          /\ ret = IsCanonicalText(args[1])
          /\ HasExtraCharacter(args[1]) => ret = FALSE
    /\ op = "parse" /\ IsCanonicalText(args[1]) =>
          ret # AssertionError /\ repr(ret) = args[1]

\* C11: is_formula accepts exactly the canonical texts and parse gives back
\* a formula printed as the text; a canonical text followed by one extra
\* character is rejected unless the character is a digit that extends the
\* variable name the text ends with; a canonical text with a ')' left out
\* or replaced by another character is rejected.
C11_CanonicalTexts ==
    /\ op = "is_formula" =>
          /\ ret = IsCanonicalText(args[1])
          /\ HasExtraCharacter(args[1]) /\ ~ExtendsVariableName(args[1])
                => ret = FALSE
          /\ MissesParenthesis(args[1]) => ret = FALSE
          /\ MismatchesParenthesis(args[1]) => ret = FALSE
    /\ op = "parse" =>
          IF IsCanonicalText(args[1])
          THEN ret # AssertionError /\ repr(ret) = args[1]
          ELSE ret = AssertionError

\* is_formula has rejected the text of a binary formula followed by one more
\* character
C11_Witness ==
    /\ op = "is_formula"
    /\ HasExtraCharacter(args[1])
    /\ args[1][1] = "(" /\ args[1][Len(args[1])] = ")"
    /\ ret = FALSE

\* is_formula has accepted a variable name followed by a digit
C11_WitnessDigit ==
    /\ op = "is_formula"
    /\ HasExtraCharacter(args[1]) /\ ExtendsVariableName(args[1])
    /\ ret = TRUE

\* is_formula has rejected the text of a binary formula without its ')'
C11_WitnessParenthesis ==
    /\ op = "is_formula"
    /\ IsCanonicalText(Append(args[1], ")"))
    /\ ret = FALSE

\* the four messages of _parse_prefix
ParseMessages ==
    {<<"Unexpected end of input">>, <<"Invalid formula">>,
     <<"Expected binary operator">>, <<"Expected closing parenthesis">>}

\* the text behind the digits it starts with
RECURSIVE SkipDigits(_)
SkipDigits(s) ==
    IF s # << >> /\ s[1] \in NameDigits THEN SkipDigits(Tail(s)) ELSE s

\* the length of the longest binary operator the text starts with, or 0
OperatorAhead(s) ==
    LET found == {k \in 1..3 : k <= Len(s) /\ SubSeq(s, 1, k) \in BinaryOperators}
    IN  IF found = {} THEN 0 ELSE CHOOSE k \in found : \A l \in found : l <= k

\* the text read from left to right against the constructs still expected,
\* the next one first: what is reported when the construct expected
\* next is not there, "parsed" when none is left
RECURSIVE Diagnose(_, _)
Diagnose(expected, s) ==
    IF expected = << >> THEN "parsed"
    ELSE IF Head(expected) = "formula"
    THEN IF s = << >> THEN "Unexpected end of input"
         ELSE IF s[1] \in {"T", "F"} THEN Diagnose(Tail(expected), Tail(s))
         ELSE IF s[1] \in NameLetters
         THEN Diagnose(Tail(expected), SkipDigits(Tail(s)))
         ELSE IF s[1] = "~" THEN Diagnose(expected, Tail(s))
         ELSE IF s[1] = "("
         THEN Diagnose(<<"formula", "operator", "formula", "closing">>
                           \o Tail(expected), Tail(s))
         ELSE "Invalid formula"
    ELSE IF Head(expected) = "operator"
    THEN IF OperatorAhead(s) = 0 THEN "Expected binary operator"
         ELSE Diagnose(Tail(expected),
                       SubSeq(s, OperatorAhead(s) + 1, Len(s)))
    ELSE IF s # << >> /\ s[1] = ")" THEN Diagnose(Tail(expected), Tail(s))
         ELSE "Expected closing parenthesis"

\* C12: _parse_prefix raises nothing on any text: it returns a formula and
\* a remainder, or None with one of the four messages, and the message is
\* the one of the construct (a formula where the text ends, a formula where
\* a character starts none, a binary operator, a closing parenthesis) that
\* was expected where reading from left to right first fails.
C12_Messages ==
    op = "_parse_prefix" =>
        /\ Len(ret) = 2
        /\ ret[1] # AssertionError
        /\ IF ret[1] = None
           THEN /\ ret[2] \in ParseMessages
                /\ ret[2] = <<Diagnose(<<"formula">>, args[1])>>
           ELSE Diagnose(<<"formula">>, args[1]) = "parsed"

\* the text of a binary formula cut off before its ')' has been parsed
C12_Witness ==
    /\ op = "_parse_prefix"
    /\ ret = <<None, <<"Expected closing parenthesis">>>>
    /\ IsCanonicalText(Append(args[1], ")"))

\* a text cut off behind the first operand has been parsed
C12_WitnessOperator ==
    /\ op = "_parse_prefix"
    /\ ret = <<None, <<"Expected binary operator">>>>
    /\ IsCanonicalText(args[1] \o <<"&", "p", ")">>)

\* a text cut off behind the operator has been parsed
C12_WitnessEnd ==
    /\ op = "_parse_prefix"
    /\ ret = <<None, <<"Unexpected end of input">>>>
    /\ IsCanonicalText(args[1] \o <<"p", ")">>)

(***************************************************************************)
(* Evaluation.                                                             *)
(***************************************************************************)
EvaluateInputs ==
    FormulasUpTo(MaxNodes, {<<"p">>, <<"q", "7", "6">>, <<"T">>, <<"F">>})

\* models over a part of the names used, over all of them, and over more
EvaluateModels ==
    ModelsOver({<<"p">>}) \cup ModelsOver({<<"p">>, <<"q", "7", "6">>})
    \cup ModelsOver({<<"p">>, <<"q", "7", "6">>, <<"z">>})

\* evaluate(f, m)
CallEvaluate ==
    /\ op = "idle"
    /\ \E f \in EvaluateInputs : \E m \in EvaluateModels :
          op' = "evaluate" /\ args' = <<f, m>> /\ ret' = evaluate(f, m)

NextEvaluate == CallEvaluate \/ Return

SpecEvaluate == Init /\ [][NextEvaluate]_vars

\* the truth tables of the binary operators: the value for the operands
\* (F,F), (F,T), (T,F), (T,T)
TruthTable ==
    (<<"&">> :> <<FALSE, FALSE, FALSE, TRUE>>)
    @@ (<<"|">> :> <<FALSE, TRUE, TRUE, TRUE>>)
    @@ (<<"-", ">">> :> <<TRUE, TRUE, FALSE, TRUE>>)
    @@ (<<"<", "-", ">">> :> <<TRUE, FALSE, FALSE, TRUE>>)
    @@ (<<"+">> :> <<FALSE, TRUE, TRUE, FALSE>>)
    @@ (<<"-", "&">> :> <<TRUE, TRUE, TRUE, FALSE>>)
    @@ (<<"-", "|">> :> <<TRUE, FALSE, FALSE, FALSE>>)

\* the row of a truth table for two operand values
Row(a, b) == 1 + (IF a THEN 2 ELSE 0) + (IF b THEN 1 ELSE 0)

\* the value of a formula by the truth tables
RECURSIVE TableValue(_, _)
TableValue(f, m) ==
    IF Len(f) = 3
    THEN TruthTable[f[1]][Row(TableValue(f[2], m), TableValue(f[3], m))]
    ELSE IF Len(f) = 2 THEN ~TableValue(f[2], m)
    ELSE IF f[1] = <<"T">> THEN TRUE
    ELSE IF f[1] = <<"F">> THEN FALSE
    ELSE m[f[1]]

\* ~(p&q76)
ExampleEvaluateFormula ==
    <<<<"~">>, <<<<"&">>, <<<<"p">>>>, <<<<"q", "7", "6">>>>>>>>

\* C13: evaluate(f, m), for a model m whose keys include the variables of f,
\* is the value f has by the truth tables; ~(p&q76) is true under p true,
\* q76 false and false under p true, q76 true.
C13_TruthTables ==
    op = "evaluate" /\ variables(args[1]) \subseteq DOMAIN args[2] =>
        /\ ret = (IF TableValue(args[1], args[2]) THEN "True" ELSE "False")
        /\ args[1] = ExampleEvaluateFormula /\ args[2][<<"p">>] =>
              ret = (IF args[2][<<"q", "7", "6">>] THEN "False" ELSE "True")

\* ~(p&q76) has been evaluated to false, in the model making p and q76 true
C13_Witness ==
    /\ op = "evaluate"
    /\ args[1] = parse(<<"~", "(", "p", "&", "q", "7", "6", ")">>)
    /\ args[2] = (<<"p">> :> TRUE) @@ (<<"q", "7", "6">> :> TRUE)
    /\ ret = "False"

\* an exclusive or of two variables has been evaluated in a model with a
\* further key, both operands being true
C13_WitnessXor ==
    /\ op = "evaluate"
    /\ args[1] = <<<<"+">>, <<<<"p">>>>, <<<<"q", "7", "6">>>>>>
    /\ <<"z">> \in DOMAIN args[2]
    /\ args[2][<<"p">>] /\ args[2][<<"q", "7", "6">>]
    /\ ret = "False"

(***************************************************************************)
(* Construction: the constructor called with any root and operands, and    *)
(* every library call that returns a formula.                              *)
(***************************************************************************)
\* roots of every token class, and strings of none: empty, a parenthesis,
\* parts of operators, a digit, a name with a letter behind it, and the
\* characters next to 'p' and 'z'
RootInputs ==
    {<<"p">>, <<"x", "1", "2">>, <<"z">>, <<"T">>, <<"F">>, <<"~">>,
     <<"&">>, <<"-", ">">>, <<"<", "-", ">">>, <<"-", "|">>,
     << >>, <<"(">>, <<"-">>, <<"<", "-">>, <<"1">>, <<"p", "x">>,
     <<"o">>, <<"{">>, <<"~", "~">>}

\* omitted operands (None) and formulas
OperandInputs ==
    {None, <<<<"p">>>>, <<<<"~">>, <<<<"q">>>>>>,
     <<<<"&">>, <<<<"p">>>>, <<<<"T">>>>>>}

\* Formula(root, first, second)
CallFormula ==
    /\ op = "idle"
    /\ \E root_ \in RootInputs : \E first_, second_ \in OperandInputs :
          op' = "Formula" /\ args' = <<root_, first_, second_>>
          /\ ret' = Formula(root_, first_, second_)

NextFormula ==
    \/ CallFormula
    \/ CallParse
    \/ CallParsePolish
    \/ CallSubstituteVariables
    \/ CallSubstituteOperators
    \/ CallSynthesize
    \/ CallSynthesizeCnf
    \/ CallToNotAndOr
    \/ CallToNotAnd
    \/ CallToNand
    \/ CallToImpliesNot
    \/ CallToImpliesFalse
    \/ Return

SpecFormula == Init /\ [][NextFormula]_vars

\* the number of operands the root calls for; -1 for a root of no class
Arity(root_) ==
    IF root_ = << >> THEN -1
    ELSE IF is_variable(root_) \/ is_constant(root_) THEN 0
    ELSE IF is_unary(root_) THEN 1
    ELSE IF is_binary(root_) THEN 2
    ELSE -1

\* the tree has at every node the operands its root calls for
RECURSIVE HasArity(_)
HasArity(f) ==
    /\ Len(f) = 1 + Arity(f[1])
    /\ \A i \in 2..Len(f) : HasArity(f[i])

\* the operands given are the ones the root calls for
OperandsFit(root_, first_, second_) ==
    \/ Arity(root_) = 0 /\ first_ = None /\ second_ = None
    \/ Arity(root_) = 1 /\ first_ # None /\ second_ = None
    \/ Arity(root_) = 2 /\ first_ # None /\ second_ # None

\* the calls that return a formula
FormulaReturned ==
    /\ op \in {"Formula", "parse", "parse_polish", "substitute_variables",
               "substitute_operators", "synthesize", "synthesize_cnf",
               "to_not_and_or", "to_not_and", "to_nand", "to_implies_not",
               "to_implies_false"}
    /\ ret # AssertionError /\ ret # IndexError

\* C14: every formula returned by the constructor, a parser, a substitution,
\* a synthesis or a converter has at every node the operands its root calls
\* for; a constructor call whose operands are not the ones its root calls
\* for, or whose root is of no token class, raises and returns no formula.
C14_Arity ==
    /\ FormulaReturned => HasArity(ret)
    /\ op = "Formula" =>
          IF OperandsFit(args[1], args[2], args[3])
          THEN ret = <<args[1]>> \o SelectSeq(<<args[2], args[3]>>,
                                              LAMBDA x : x # None)
          ELSE ret \in {AssertionError, IndexError}

\* the constructor has refused a second operand beside '~'
C14_Witness ==
    /\ op = "Formula"
    /\ args[1] = <<"~">> /\ args[2] # None /\ args[3] # None
    /\ ret = AssertionError

\* the constructor has refused a root that is part of an operator
C14_WitnessRoot ==
    /\ op = "Formula"
    /\ args[1] = <<"<", "-">> /\ args[2] # None /\ args[3] # None
    /\ ret = AssertionError

\* the constructor has built a binary formula
C14_WitnessBuilt ==
    /\ op = "Formula"
    /\ Arity(args[1]) = 2
    /\ ret = <<args[1], args[2], args[3]>> /\ HasArity(ret)

(***************************************************************************)
(* The object all_models returns: a generator (the body of all_models has  *)
(* a yield).  ret holds the generator and the iterations of its caller:    *)
(* index is the number of models the generator has yielded, passes the     *)
(* number of iterations started on it, seen the models the current         *)
(* iteration got, before the models the earlier iterations got, ended      *)
(* whether the current iteration got StopIteration.                        *)
(***************************************************************************)
\* one generator is iterated at most this many times
MaxPasses == 3

\* iter(generator) rewinding the generator to its first model
iter_rewound(index) == 0

\* iter(generator): the generator itself, where it stands
iter(index) == index

\* next(generator): the model yielded and the index behind it; None and the
\* same index when the loop of lines 112-113 has ended (StopIteration)
next(variables_, index) ==
    IF index < Len(all_models(variables_))
    THEN <<all_models(variables_)[index + 1], index + 1>>
    ELSE <<None, index>>

\* all_models(vs): the generator, none of its body run yet
CallAllModelsGenerator ==
    /\ op = "idle"
    /\ \E vs \in VariableLists :
          /\ op' = "generator" /\ args' = <<vs>>
          /\ ret' = [index |-> 0, passes |-> 0, seen |-> << >>,
                     before |-> << >>, ended |-> FALSE]

\* for model in generator: the loop is entered; an earlier loop over the
\* same object has ended or was left part-way
StartIteration ==
    /\ op = "generator"
    /\ ret.passes < MaxPasses
    /\ ret' = [index |-> iter(ret.index), passes |-> ret.passes + 1,
               seen |-> << >>, before |-> ret.before \o ret.seen,
               ended |-> FALSE]
    /\ UNCHANGED <<op, args>>

\* the loop asks for the next model
NextModel ==
    /\ op = "generator"
    /\ ret.passes > 0 /\ ~ret.ended
    /\ LET yielded == next(args[1], ret.index)
       IN  IF yielded[2] = ret.index
           THEN ret' = [ret EXCEPT !.ended = TRUE]
           ELSE ret' = [ret EXCEPT !.index = yielded[2],
                                   !.seen = Append(@, yielded[1])]
    /\ UNCHANGED <<op, args>>

NextGenerator ==
    CallAllModelsGenerator \/ StartIteration \/ NextModel \/ Return

SpecGenerator == Init /\ [][NextGenerator]_vars

\* C15 as stated: an iteration of the returned object that follows another
\* one and runs to the end yields all the models, from the first.
C15_AsStated ==
    op = "generator" /\ ret.passes >= 2 /\ ret.ended =>
        ret.seen = all_models(args[1])

\* C15: the returned object yields each model once over all the iterations
\* of it: an iteration takes up behind the last model an earlier one got,
\* one that runs to the end gets the models no earlier one got, and none
\* when an earlier one ran to the end.
C15_OneShot ==
    op = "generator" =>
        /\ ret.before \o ret.seen
              = SubSeq(all_models(args[1]), 1, ret.index)
        /\ ret.ended => ret.index = Len(all_models(args[1]))
        /\ ret.ended /\ Len(ret.before) = Len(all_models(args[1]))
              => ret.seen = << >>

\* a second iteration has ended without a model, the first one having got
\* all four models over two names
C15_Witness ==
    /\ op = "generator"
    /\ ret.passes = 2 /\ ret.ended
    /\ Len(ret.before) = 4 /\ ret.seen = << >>

\* a second iteration has ended with the models left by a first one that
\* was abandoned part-way
C15_WitnessResumed ==
    /\ op = "generator"
    /\ ret.passes = 2 /\ ret.ended
    /\ Len(ret.before) = 1 /\ Len(ret.seen) = 3

(***************************************************************************)
(* Constants under to_implies_false.                                       *)
(***************************************************************************)
\* (F->F)
FalseImpliesFalse == <<<<"-", ">">>, <<<<"F">>>>, <<<<"F">>>>>>

\* the formula with T replaced by (p|~p) and F by (p&~p), lines 27-31
RECURSIVE ConstantsThroughP(_)
ConstantsThroughP(f) ==
    IF f = <<<<"T">>>>
    THEN <<<<"|">>, <<<<"p">>>>, <<<<"~">>, <<<<"p">>>>>>>>
    ELSE IF f = <<<<"F">>>>
    THEN <<<<"&">>, <<<<"p">>>>, <<<<"~">>, <<<<"p">>>>>>>>
    ELSE [i \in 1..Len(f) |-> IF i = 1 THEN f[1] ELSE ConstantsThroughP(f[i])]

\* every F of the formula is the second operand of an implication
RECURSIVE FalseOnlyNegates(_)
FalseOnlyNegates(f) ==
    /\ f # <<<<"F">>>>
    /\ Len(f) >= 2 => FalseOnlyNegates(f[2])
    /\ Len(f) = 3 => f[3] = <<<<"F">>>> \/ FalseOnlyNegates(f[3])

\* C16: to_implies_false returns F for F and (F->F) for T, and a constant
\* inside a formula becomes F or (F->F) as well, so that the result has no
\* variable the formula has not.
C16_ConstantsKept ==
    op = "to_implies_false" =>
        /\ args[1] = <<<<"F">>>> => ret = <<<<"F">>>>
        /\ args[1] = <<<<"T">>>> => ret = FalseImpliesFalse
        /\ variables(ret) \subseteq variables(args[1])

\* what the code does instead: the convert inside to_implies_false keeps F
\* and rewrites T to (F->F) (lines 158-160), but to_implies_false gives it
\* the result of to_implies_not, in which every constant is already
\* rewritten through the variable p, so that the branch is never taken: F
\* becomes ((p->((p->F)->F))->F), T becomes ((p->F)->(p->F)), a formula is
\* converted as the one with (p|~p) for T and (p&~p) for F is, and each F of
\* the result is the second operand of an implication that stands for a '~'.
ToImpliesFalseConstants ==
    op = "to_implies_false" =>
        /\ to_implies_false_convert(<<<<"F">>>>) = <<<<"F">>>>
        /\ to_implies_false_convert(<<<<"T">>>>) = FalseImpliesFalse
        /\ args[1] = <<<<"F">>>> =>
              repr(ret) = <<"(", "(", "p", "-", ">", "(", "(", "p", "-", ">",
                            "F", ")", "-", ">", "F", ")", ")", "-", ">",
                            "F", ")">>
        /\ args[1] = <<<<"T">>>> =>
              repr(ret) = <<"(", "(", "p", "-", ">", "F", ")", "-", ">", "(",
                            "p", "-", ">", "F", ")", ")">>
        /\ ret = to_implies_false(ConstantsThroughP(args[1]))
        /\ FalseOnlyNegates(ret)
        /\ operators(args[1]) \cap {<<"T">>, <<"F">>} # {} =>
              <<"p">> \in variables(ret)

\* the formula T has been converted
C16_Witness ==
    /\ op = "to_implies_false"
    /\ args[1] = <<<<"T">>>>
    /\ <<"p">> \in variables(ret)

\* a formula with F under a binary operator has been converted
C16_WitnessInside ==
    /\ op = "to_implies_false"
    /\ Len(args[1]) = 3 /\ args[1][3] = <<<<"F">>>>
    /\ <<"p">> \notin variables(args[1])
    /\ <<"p">> \in variables(ret)

(***************************************************************************)
(* The classification checks step by step: all(...) and any(...) draw the  *)
(* truth values one at a time from the generator truth_values returns,     *)
(* which draws each model from the generator all_models returns.  ret      *)
(* holds the number of models all_models has produced, the model           *)
(* truth_values holds and has not evaluated yet (a list of none or one),   *)
(* the values yielded so far, and the result ("running" until returned).   *)
(***************************************************************************)
LazyChecks == {"is_tautology", "is_contradiction", "is_satisfiable"}

\* all(...) asking for yet another value behind every value
all_goes_on_always(value) == TRUE

\* all(...) asks for another value behind a true one
all_goes_on(value) == value = "True"

\* any(...) asks for another value behind a false one
any_goes_on(value) == value = "False"

\* what the check returns for the result of all(...) or any(...), a str
ResultOf(check, outcome) ==
    IF check = "is_contradiction"
    THEN (IF outcome THEN "False" ELSE "True")
    ELSE (IF outcome THEN "True" ELSE "False")

\* is_tautology(f), is_contradiction(f) or is_satisfiable(f) is entered
StartCheck ==
    /\ op = "idle"
    /\ \E f \in ClassifyInputs : \E check \in LazyChecks :
          /\ op' = check /\ args' = <<f>>
          /\ ret' = [produced |-> 0, held |-> << >>, values |-> << >>,
                     result |-> "running"]

\* truth_values asks all_models for the next model (line 131); when there
\* is none, all(...) or any(...) returns for the values it has seen
ProduceModel ==
    /\ op \in LazyChecks
    /\ ret.result = "running" /\ ret.held = << >>
    /\ LET yielded == next(sorted(variables(args[1])), ret.produced)
       IN  IF yielded[2] = ret.produced
           THEN ret' = [ret EXCEPT !.result =
                          ResultOf(op, IF op = "is_tautology"
                                       THEN all(ret.values)
                                       ELSE any(ret.values))]
           ELSE ret' = [ret EXCEPT !.produced = yielded[2],
                                   !.held = <<yielded[1]>>]
    /\ UNCHANGED <<op, args>>

\* truth_values yields the value of the formula in the model (line 132), and
\* all(...) or any(...) goes on or returns
EvaluateModel ==
    /\ op \in LazyChecks
    /\ ret.result = "running" /\ ret.held # << >>
    /\ LET value == evaluate(args[1], ret.held[1])
           goes_on == IF op = "is_tautology" THEN all_goes_on(value)
                      ELSE any_goes_on(value)
       IN  ret' = [ret EXCEPT !.held = << >>,
                              !.values = Append(@, value),
                              !.result = IF goes_on THEN "running"
                                         ELSE ResultOf(op, value = "True")]
    /\ UNCHANGED <<op, args>>

NextLazy == StartCheck \/ ProduceModel \/ EvaluateModel \/ Return

SpecLazy == Init /\ [][NextLazy]_vars

\* the index of the first of the values that is v, one behind the last when
\* none is
FirstOf(values, v) ==
    IF \E j \in 1..Len(values) : values[j] = v
    THEN CHOOSE j \in 1..Len(values) :
             values[j] = v /\ \A i \in 1..(j - 1) : values[i] # v
    ELSE Len(values) + 1

\* the values of the formula in all the models, in their order
AllValues(f) == truth_values(f, all_models(sorted(variables(f))))

\* the number of models the check may draw: up to the first one that
\* decides it
ModelsNeeded(check, f) ==
    LET decisive == FirstOf(AllValues(f),
                            IF check = "is_tautology" THEN "False" ELSE "True")
    IN  IF decisive > Len(AllValues(f)) THEN Len(AllValues(f)) ELSE decisive

\* C17: a classification check draws and evaluates the models in order and
\* none behind the first one that decides it: the first where f is false
\* for is_tautology, the first where f is true for is_satisfiable and
\* is_contradiction; it returns what the check of all the models gives.
C17_EarlyStop ==
    op \in LazyChecks =>
        /\ ret.produced <= ModelsNeeded(op, args[1])
        /\ Len(ret.values) + Len(ret.held) = ret.produced
        /\ ret.values = SubSeq(AllValues(args[1]), 1, Len(ret.values))
        /\ ret.held # << >> =>
              ret.held[1]
                  = all_models(sorted(variables(args[1])))[ret.produced]
        /\ ret.result # "running" =>
              /\ Len(ret.values) = ModelsNeeded(op, args[1])
              /\ op = "is_tautology" =>
                    (ret.result = "True") = is_tautology(args[1])
              /\ op = "is_contradiction" =>
                    (ret.result = "True") = is_contradiction(args[1])
              /\ op = "is_satisfiable" =>
                    (ret.result = "True") = is_satisfiable(args[1])

\* is_tautology has returned after the first of four models
C17_Witness ==
    /\ op = "is_tautology"
    /\ Len(AllValues(args[1])) = 4
    /\ ret.result = "False" /\ ret.produced = 1

\* is_contradiction has returned after the second of four models
C17_WitnessContradiction ==
    /\ op = "is_contradiction"
    /\ Len(AllValues(args[1])) = 4
    /\ ret.result = "False" /\ ret.produced = 2

\* is_satisfiable has returned after both models, none making f true
C17_WitnessAll ==
    /\ op = "is_satisfiable"
    /\ Len(AllValues(args[1])) = 2
    /\ ret.result = "False" /\ ret.produced = 2

\* C18: when _parse_prefix returns a formula and a remainder, the text is
\* the formula as printed followed by the remainder, and when the formula
\* as printed ends with a variable name the remainder starts with no
\* decimal digit.
C18_GreedyPrefix ==
    op = "_parse_prefix" /\ ret[1] # None =>
        /\ args[1] = repr(ret[1]) \o ret[2]
        /\ LET text == repr(ret[1])
           IN  text[Len(text)] \in NameLetters \cup NameDigits =>
                  ret[2] = << >> \/ ~IsDecimalChar(ret[2][1])

\* a formula ending with a variable name of several digits has been parsed
\* off a text that goes on behind it
C18_Witness ==
    /\ op = "_parse_prefix"
    /\ ret[1] # None /\ ret[2] # << >>
    /\ Len(ret[1]) = 2 /\ ret[1][2] = <<<<"x", "1", "2">>>>

\* a text in which a digit follows the ')' of a formula has been parsed
C18_WitnessDigit ==
    /\ op = "_parse_prefix"
    /\ ret[1] # None /\ ret[2] # << >>
    /\ Len(ret[1]) = 3 /\ ret[2][1] = "1"

\* the formula has a constant
RECURSIVE HasConstant(_)
HasConstant(f) ==
    \/ f = <<<<"T">>>> \/ f = <<<<"F">>>>
    \/ \E i \in 2..Len(f) : HasConstant(f[i])

\* C19: the variables of a converter's result are those of the formula,
\* and p besides when the formula has a constant: none is lost, none but p
\* is added, and p is added exactly when the formula has a constant and
\* has no p.
C19_Variables ==
    op \in Converters =>
        /\ variables(ret) \subseteq variables(args[1]) \cup {<<"p">>}
        /\ ~HasConstant(args[1]) => variables(ret) = variables(args[1])
        /\ variables(args[1]) \subseteq variables(ret)
        /\ <<"p">> \in variables(ret) \ variables(args[1])
              <=> HasConstant(args[1]) /\ <<"p">> \notin variables(args[1])

\* to_nand has converted a formula with a constant and q, and without p
C19_Witness ==
    /\ op = "to_nand"
    /\ HasConstant(args[1])
    /\ variables(args[1]) = {<<"q">>}
    /\ variables(ret) = {<<"p">>, <<"q">>}

\* to_implies_not has converted a formula with a constant and p
C19_WitnessWithP ==
    /\ op = "to_implies_not"
    /\ HasConstant(args[1])
    /\ <<"p">> \in variables(args[1])
    /\ variables(ret) = variables(args[1])

\* the variables of the formulas of a substitution map
MapVariables(substitution_map) ==
    UNION {variables(substitution_map[v]) : v \in DOMAIN substitution_map}

\* the model that gives each key of the map the value of its formula in m,
\* and every other name the value m gives it
SubstitutedModel(substitution_map, m) ==
    [v \in DOMAIN m \cup DOMAIN substitution_map |->
        IF v \in DOMAIN substitution_map
        THEN evaluate(substitution_map[v], m) = "True"
        ELSE m[v]]

\* C20: in every model defined on the variables of a formula and of the
\* formulas of a substitution map, the substituted formula has the value
\* the formula has in the model that gives each key of the map the value
\* of its formula.
C20_SubstitutionLemma ==
    op = "substitute_variables" =>
        \A m \in ModelsOver(variables(args[1]) \cup MapVariables(args[2])) :
            /\ evaluate(ret, m) \in {"True", "False"}
            /\ evaluate(ret, m)
                  = evaluate(args[1], SubstitutedModel(args[2], m))

\* p and r, both in the formula, have been replaced by ~r and p
C20_Witness ==
    /\ op = "substitute_variables"
    /\ {<<"p">>, <<"r">>} \subseteq variables(args[1])
    /\ DOMAIN args[2] = {<<"p">>, <<"r">>}
    /\ args[2][<<"p">>] = <<<<"~">>, <<<<"r">>>>>>
    /\ args[2][<<"r">>] = <<<<"p">>>>
    /\ ret # args[1]

\* a key of the map that is no variable of the formula has been given
C20_WitnessUnusedKey ==
    /\ op = "substitute_variables"
    /\ <<"r">> \in DOMAIN args[2] /\ <<"r">> \notin variables(args[1])
    /\ <<"p">> \in variables(args[1]) /\ <<"p">> \in DOMAIN args[2]

(***************************************************************************)
(* The two parsers call by call.  ret holds the call stack, the caller     *)
(* first: a frame is the string the call received, the place it waits at   *)
(* ("entry" before it has run, "unary", "first" or "second" while the      *)
(* recursive call made there runs) and the first operand and operator it   *)
(* has by then; returned is the pair a call has just returned (a list of   *)
(* none or one), calls the number of recursive calls made, steps the       *)
(* number of steps taken.                                                   *)
(***************************************************************************)
\* the texts of formulas, infix and polish, cut off at every position
CutTexts(f) ==
    {StrTo(repr(f), i) : i \in 0..Len(repr(f))}
    \cup {StrTo(polish(f), i) : i \in 0..Len(polish(f))}

ParserInputs ==
    StringsUpTo(MaxTextLen)
    \cup UNION {CutTexts(f) :
                   f \in FormulasUpTo(MaxTextNodes,
                                      {<<"p">>, <<"x", "1", "2">>})}

\* a call that has not run yet
EntryFrame(string) ==
    [s |-> string, at |-> "entry", first |-> None, operator |-> << >>]

\* what a call does next: <<"return", pair>>, or <<"call", the frame it
\* waits in, the string of the recursive call>>

\* the same with the recursive call behind '~' given the whole string
ParsePrefixEnter_whole(string) ==
    IF Len(string) = 0
    THEN <<"return", <<None, <<"Unexpected end of input">>>>>>
    ELSE IF is_constant(CharAt(string, 0))
    THEN <<"return",
           <<Formula(CharAt(string, 0), None, None), StrFrom(string, 1)>>>>
    ELSE LET index == ScanDecimals(string, 1)
             variable == StrTo(string, index)
         IN
         IF /\ Ord[string[1]] >= Ord["p"] /\ Ord[string[1]] <= Ord["z"]
            /\ is_variable(variable)
         THEN <<"return",
                <<Formula(variable, None, None), StrFrom(string, index)>>>>
         ELSE IF is_unary(CharAt(string, 0))
         THEN <<"call", [EntryFrame(string) EXCEPT !.at = "unary"],
                string>>
         ELSE IF string[1] = "("
         THEN <<"call", [EntryFrame(string) EXCEPT !.at = "first"],
                StrFrom(string, 1)>>
         ELSE <<"return", <<None, <<"Invalid formula">>>>>>

\* _parse_prefix from its entry, lines 195-214
ParsePrefixEnter(string) ==
    IF Len(string) = 0
    THEN <<"return", <<None, <<"Unexpected end of input">>>>>>
    ELSE IF is_constant(CharAt(string, 0))
    THEN <<"return",
           <<Formula(CharAt(string, 0), None, None), StrFrom(string, 1)>>>>
    ELSE LET index == ScanDecimals(string, 1)
             variable == StrTo(string, index)
         IN
         IF /\ Ord[string[1]] >= Ord["p"] /\ Ord[string[1]] <= Ord["z"]
            /\ is_variable(variable)
         THEN <<"return",
                <<Formula(variable, None, None), StrFrom(string, index)>>>>
         ELSE IF is_unary(CharAt(string, 0))
         THEN <<"call", [EntryFrame(string) EXCEPT !.at = "unary"],
                StrFrom(string, 1)>>
         ELSE IF string[1] = "("
         THEN <<"call", [EntryFrame(string) EXCEPT !.at = "first"],
                StrFrom(string, 1)>>
         ELSE <<"return", <<None, <<"Invalid formula">>>>>>

\* _parse_prefix from the return of a recursive call, lines 209-238
ParsePrefixResume(frame, pair) ==
    IF frame.at = "unary"
    THEN IF pair[1] = None THEN <<"return", <<None, pair[2]>>>>
         ELSE <<"return", <<Formula(CharAt(frame.s, 0), pair[1], None),
                            pair[2]>>>>
    ELSE IF frame.at = "first"
    THEN LET length == MatchOperator(pair[2], max_op_length(pair[2]))
         IN  IF pair[1] = None THEN <<"return", <<None, pair[2]>>>>
             ELSE IF pair[2] = << >> \/ length = 0
             THEN <<"return", <<None, <<"Expected binary operator">>>>>>
             ELSE <<"call",
                    [frame EXCEPT !.at = "second", !.first = pair[1],
                                  !.operator = StrTo(pair[2], length)],
                    StrFrom(pair[2], length)>>
    ELSE IF pair[1] = None THEN <<"return", <<None, pair[2]>>>>
         ELSE IF pair[2] = << >> \/ pair[2][1] # ")"
         THEN <<"return", <<None, <<"Expected closing parenthesis">>>>>>
         ELSE <<"return", <<Formula(frame.operator, frame.first, pair[1]),
                            StrFrom(pair[2], 1)>>>>

\* parse_prefix of parse_polish from its entry, lines 295-326
PolishEnter(s) ==
    IF s = << >>
    THEN <<"return", <<None, <<"Unexpected end of input">>>>>>
    ELSE IF is_constant(CharAt(s, 0))
    THEN <<"return", <<Formula(CharAt(s, 0), None, None), StrFrom(s, 1)>>>>
    ELSE LET index == ScanDecimals(s, 1)
             name == StrTo(s, index)
             length == MatchOperator(s, max_op_length(s))
         IN
         IF /\ Ord[s[1]] >= Ord["p"] /\ Ord[s[1]] <= Ord["z"]
            /\ is_variable(name)
         THEN <<"return", <<Formula(name, None, None), StrFrom(s, index)>>>>
         ELSE IF is_unary(CharAt(s, 0))
         THEN <<"call", [EntryFrame(s) EXCEPT !.at = "unary"],
                StrFrom(s, 1)>>
         ELSE IF length = 0
         THEN <<"return", <<None, <<"Invalid formula">>>>>>
         ELSE <<"call",
                [EntryFrame(s) EXCEPT !.at = "first",
                                      !.operator = StrTo(s, length)],
                StrFrom(s, length)>>

\* parse_prefix of parse_polish from the return of a recursive call, lines
\* 309-332
PolishResume(frame, pair) ==
    IF pair[1] = None THEN <<"return", <<None, pair[2]>>>>
    ELSE IF frame.at = "unary"
    THEN <<"return", <<Formula(CharAt(frame.s, 0), pair[1], None), pair[2]>>>>
    ELSE IF frame.at = "first"
    THEN <<"call", [frame EXCEPT !.at = "second", !.first = pair[1]],
           pair[2]>>
    ELSE <<"return", <<Formula(frame.operator, frame.first, pair[1]),
                       pair[2]>>>>

\* the stack without its last frame
Callers(stack) == SubSeq(stack, 1, Len(stack) - 1)

\* ret after the call on top of the stack has gone on as `next_`
After(next_) ==
    IF next_[1] = "return"
    THEN [ret EXCEPT !.stack = Callers(@), !.returned = <<next_[2]>>,
                     !.steps = @ + 1]
    ELSE [ret EXCEPT !.stack = Append(Callers(@), next_[2])
                                   \o <<EntryFrame(next_[3])>>,
                     !.returned = << >>, !.calls = @ + 1, !.steps = @ + 1]

\* Formula._parse_prefix(s) or the parse_prefix(s) of parse_polish is called
CallParser ==
    /\ op = "idle"
    /\ \E string \in ParserInputs :
       \E parser \in {"_parse_prefix", "parse_polish.parse_prefix"} :
          /\ op' = parser /\ args' = <<string>>
          /\ ret' = [stack |-> <<EntryFrame(string)>>, returned |-> << >>,
                     calls |-> 0, steps |-> 0]

\* the call on top of the stack runs from its entry to its return or to its
\* first recursive call
EnterCall ==
    /\ op \in {"_parse_prefix", "parse_polish.parse_prefix"}
    /\ ret.returned = << >> /\ ret.stack # << >>
    /\ LET frame == ret.stack[Len(ret.stack)]
       IN  ret' = After(IF op = "_parse_prefix"
                        THEN ParsePrefixEnter(frame.s)
                        ELSE PolishEnter(frame.s))
    /\ UNCHANGED <<op, args>>

\* a recursive call has returned: its caller runs on to its return or to its
\* next recursive call
ResumeCall ==
    /\ op \in {"_parse_prefix", "parse_polish.parse_prefix"}
    /\ ret.returned # << >> /\ ret.stack # << >>
    /\ LET frame == ret.stack[Len(ret.stack)]
       IN  ret' = After(IF op = "_parse_prefix"
                        THEN ParsePrefixResume(frame, ret.returned[1])
                        ELSE PolishResume(frame, ret.returned[1]))
    /\ UNCHANGED <<op, args>>

NextParser == CallParser \/ EnterCall \/ ResumeCall \/ Return

SpecParser == Init /\ [][NextParser]_vars

\* the first call has returned
ParserDone ==
    /\ op \in {"_parse_prefix", "parse_polish.parse_prefix"}
    /\ ret.stack = << >>

\* C21: both parsers end on every text: every recursive call receives a
\* string shorter than the one its caller received, the recursive calls
\* are at most as many as the text has characters, a call that has not
\* returned can always go on and it does so at most twice per character
\* and once more, and the pair returned at the end is the one the parser
\* returns.
C21_Termination ==
    op \in {"_parse_prefix", "parse_polish.parse_prefix"} =>
        /\ \A i \in 2..Len(ret.stack) :
              Len(ret.stack[i].s) < Len(ret.stack[i - 1].s)
        /\ ret.stack # << >> => ret.stack[1].s = args[1]
        /\ ret.calls <= Len(args[1])
        /\ ret.steps <= 2 * Len(args[1]) + 1
        /\ ret.stack # << >> =>
              IF ret.returned = << >>
              THEN ret.stack[Len(ret.stack)].at = "entry"
              ELSE ret.stack[Len(ret.stack)].at # "entry"
        /\ ret.stack = << >> =>
              /\ Len(ret.returned) = 1
              /\ ret.returned[1]
                    = (IF op = "_parse_prefix"
                       THEN Formula_parse_prefix(args[1])
                       ELSE parse_polish_parse_prefix(args[1]))

\* _parse_prefix has returned a binary formula after two recursive calls
C21_Witness ==
    /\ ParserDone /\ op = "_parse_prefix"
    /\ ret.calls = 2
    /\ Len(ret.returned[1][1]) = 3 /\ ret.returned[1][2] = << >>

\* parse_prefix of parse_polish has returned a failure after as many
\* recursive calls as the text has characters
C21_WitnessPolish ==
    /\ ParserDone /\ op = "parse_polish.parse_prefix"
    /\ ret.returned[1][1] = None
    /\ ret.calls = Len(args[1]) /\ ret.calls >= 3
=============================================================================
